---- MODULE Spec2Model ----
(***************************************************************************)
(* A model of tkp.sourcefinder.image.ImageData: the memoised derived       *)
(* products of one image (masked data, coarse grids, background map, RMS   *)
(* map, background-subtracted data), the user overrides of the two maps,   *)
(* the per-threshold label caches, and the public operations that read     *)
(* and invalidate them (extract, reverse_se, fit_fixed_positions,          *)
(* clearcache, the property setters and getters).                          *)
(*                                                                         *)
(* Conventions.                                                            *)
(*  - A pixel is <<x, y>>, 0-based, x the first numpy axis.                *)
(*  - An array is a record [shape, val, mask]: val maps each pixel of the  *)
(*    shape to an integer, mask is the set of masked pixels (empty for a   *)
(*    plain ndarray).                                                      *)
(*  - Pixel values are fixed-point integers.                               *)
(*  - An optional value (None, a missing attribute, an empty memo slot)    *)
(*    is a set with at most one element.                                   *)
(*  - Sub-pixel coordinates of a Detection are counted in half pixels.     *)
(*  - Every operation of the object is an operator from an engine record   *)
(*    (the object's fields) to a result [e, err, val]: the engine after    *)
(*    the call, the exception raised ("none" if it returned) and the       *)
(*    value returned.                                                      *)
(*  - A method body is written as a chain of local operators, one per      *)
(*    intermediate result, so that each attribute read or call of the      *)
(*    source appears once, in the order the source makes it.               *)
(*  - numpy.ndarray and numpy.ma.MaskedArray are not told apart: an array  *)
(*    without masked pixels stands for both.                               *)
(*  - Array indices are the floats numpy.floor and numpy.ceil return,      *)
(*    which the NumPy releases of this Python 2 code truncate to integers; *)
(*    a negative index counts from the end of the axis.                    *)
(***************************************************************************)
EXTENDS Integers, Sequences, FiniteSets, TLC

VARIABLES
    rawdata,        \* self.rawdata: the pixel array (never reassigned)
    wcs,            \* self.wcs projected onto what reliable_window reads
    margin,         \* self.margin
    radius,         \* self.radius, in half pixels
    median_filter,  \* self.median_filter
    mf_threshold,   \* self.mf_threshold
    fitter,         \* behaviour of the Gaussian fitter on this image
    memo,           \* slots of the @Memoize properties
    user_backmap,   \* self._user_backmap (absent until set)
    user_noisemap,  \* self._user_noisemap (absent until set)
    labels,         \* self.labels: threshold -> labelled islands
    clip,           \* self.clip: threshold -> clipped pixels
    residuals,      \* the residuals_from_* attributes exist
    last            \* the name of the last public call

vars == <<rawdata, wcs, margin, radius, median_filter, mf_threshold, fitter,
          memo, user_backmap, user_noisemap, labels, clip, residuals, last>>

-----------------------------------------------------------------------------
(* Bounds of the model *)

XDim == 2
YDim == 2

-----------------------------------------------------------------------------
(* Optional values, arrays, Python indexing *)

None == {}
Some(x) == {x}
The(s) == CHOOSE x \in s : TRUE

Pix(shape) == (0 .. shape[1] - 1) \X (0 .. shape[2] - 1)
ImageShape == <<XDim, YDim>>
Pixels == Pix(ImageShape)

Uniform(shape, v) ==
    [shape |-> shape, val |-> [p \in Pix(shape) |-> v], mask |-> {}]

Abs(n) == IF n < 0 THEN -n ELSE n
Min2(a, b) == IF a < b THEN a ELSE b
Max2(a, b) == IF a > b THEN a ELSE b
SetMin(S) == CHOOSE m \in S : \A n \in S : m <= n
SetMax(S) == CHOOSE m \in S : \A n \in S : m >= n

\* a[i] for an axis of length n: a negative index counts from the end, an
\* index outside -n .. n-1 raises IndexError
PyIndexOk(i, n) == -n <= i /\ i < n
PyIndex(i, n) == IF i < 0 THEN i + n ELSE i

\* the indices selected by a[lo:hi] on an axis of length n
PySlice(lo, hi, n) ==
    LET start == IF lo < 0 THEN Max2(lo + n, 0) ELSE Min2(lo, n)
        stop == IF hi < 0 THEN Max2(hi + n, 0) ELSE Min2(hi, n)
    IN  start .. stop - 1

\* raster (C) order of pixels, the order numpy and ndimage scan an array in
Before(p, q) == p[1] < q[1] \/ (p[1] = q[1] /\ p[2] <= q[2])
FirstPixel(S) == CHOOSE p \in S : \A q \in S : Before(p, q)

RECURSIVE SumOver(_, _)
SumOver(f, S) ==
    IF S = {} THEN 0
    ELSE LET p == FirstPixel(S) IN f[p] + SumOver(f, S \ {p})

\* floor of the square root
RECURSIVE ISqrtFrom(_, _)
ISqrtFrom(n, r) == IF (r + 1) * (r + 1) > n THEN r ELSE ISqrtFrom(n, r + 1)
ISqrt(n) == ISqrtFrom(n, 0)

\* the results of an operation
Ok(e, v) == [e |-> e, err |-> "none", val |-> v]
Raise(e, kind) == [e |-> e, err |-> kind, val |-> <<>>]

\* the object's mutable fields as one record
Eng == [memo |-> memo, ubg |-> user_backmap, urms |-> user_noisemap,
        labels |-> labels, clip |-> clip, resid |-> residuals]

-----------------------------------------------------------------------------
(* Masking layer *)

\* a variant of reliable_window that keeps the pixels up to delta on either
\* side of the index crpix
ReliableWindowWide ==
    IF wcs.sin
    THEN LET lim(v) == IF v > 0 THEN v ELSE 0
             xs == PySlice(lim(wcs.crpix[1] - wcs.delta[1]),
                           lim(wcs.crpix[1] + 1 + wcs.delta[1]), XDim)
             ys == PySlice(lim(wcs.crpix[2] - wcs.delta[2]),
                           lim(wcs.crpix[2] + 1 + wcs.delta[2]), YDim)
         IN  Pixels \ (xs \X ys)
    ELSE {}

\* reliable_window: the pixels masked because of projection effects
reliable_window ==
    IF wcs.sin
    THEN LET lim(v) == IF v > 0 THEN v ELSE 0
             xs == PySlice(lim(wcs.crpix[1] - wcs.delta[1]),
                           lim(wcs.crpix[1] - 1 + wcs.delta[1]), XDim)
             ys == PySlice(lim(wcs.crpix[2] - wcs.delta[2]),
                           lim(wcs.crpix[2] - 1 + wcs.delta[2]), YDim)
         IN  Pixels \ (xs \X ys)
    ELSE {}

\* utils.circular_mask(xdim, ydim, radius): the pixels farther than radius
\* (r half pixels) from the centre of the image, the centre of a pixel being
\* at its index
circular_mask(xdim, ydim, r) ==
    {p \in Pix(<<xdim, ydim>>) :
        (2 * p[1] - (xdim - 1)) * (2 * p[1] - (xdim - 1))
            + (2 * p[2] - (ydim - 1)) * (2 * p[2] - (ydim - 1))
        > r * r}

\* a variant of DataMask that does not mask the pixels equal to zero
DataMaskKeepsZeros ==
    LET margin_mask ==
            IF margin # 0
            THEN Pixels \ (PySlice(margin, -margin, XDim)
                           \X PySlice(margin, -margin, YDim))
            ELSE {}
        radius_mask ==
            IF radius # 0 THEN circular_mask(XDim, YDim, radius) ELSE {}
    IN  reliable_window \cup margin_mask \cup radius_mask

\* the mask of self.data
DataMask ==
    LET margin_mask ==
            IF margin # 0
            THEN Pixels \ (PySlice(margin, -margin, XDim)
                           \X PySlice(margin, -margin, YDim))
            ELSE {}
        radius_mask ==
            IF radius # 0 THEN circular_mask(XDim, YDim, radius) ELSE {}
    IN  reliable_window \cup margin_mask \cup radius_mask
            \cup {p \in Pixels : rawdata[p] = 0}

\* _get_data: the memoised masked image
_get_data(e) ==
    IF e.memo.data # None THEN Ok(e, The(e.memo.data))
    ELSE LET d == [shape |-> ImageShape, val |-> rawdata, mask |-> DataMask]
         IN  Ok([e EXCEPT !.memo.data = Some(d)], d)

\* ndimage.find_objects(numpy.where(mask, 0, 1)): the bounding box of the
\* unmasked pixels, none when everything is masked
UsefulChunk(mask) ==
    LET U == Pixels \ mask
    IN  IF U = {} THEN None
        ELSE Some((SetMin({p[1] : p \in U}) .. SetMax({p[1] : p \in U}))
                  \X (SetMin({p[2] : p \in U}) .. SetMax({p[2] : p \in U})))

-----------------------------------------------------------------------------
(* Robust statistics kernel and tile estimator *)

\* tile edge: the back_sizex and back_sizey defaults.  Every image of the
\* model is smaller than one tile, so the coarse grids have one entry.
back_size == 32

\* the clipping limit in units of sigma
ClipK == 3

SampleMean(f, T) == SumOver(f, T) \div Cardinality(T)

\* the k-th smallest value (1-based) of f over T, with multiplicity
KthValue(f, T, k) ==
    CHOOSE v \in {f[p] : p \in T} :
        /\ Cardinality({p \in T : f[p] < v}) < k
        /\ Cardinality({p \in T : f[p] <= v}) >= k

SampleMedian(f, T) ==
    LET n == Cardinality(T)
    IN  (KthValue(f, T, (n + 1) \div 2) + KthValue(f, T, n \div 2 + 1)) \div 2

SampleSigma(f, T) ==
    LET m == SampleMean(f, T)
        sq == [p \in T |-> (f[p] - m) * (f[p] - m)]
    IN  ISqrt(SumOver(sq, T) \div Cardinality(T))

\* stats.sigma_clip: keep the samples within ClipK sigma of the median until
\* the sample stops changing; returns the clipped sample, sigma and median
RECURSIVE sigma_clip(_, _)
sigma_clip(f, T) ==
    LET Clip(sigma, median, keep) ==
            IF keep = T \/ keep = {}
            THEN [chunk |-> keep, sigma |-> sigma, median |-> median]
            ELSE sigma_clip(f, keep)
        Within(sigma, median) ==
            Clip(sigma, median,
                 {p \in T : Abs(f[p] - median) <= ClipK * sigma})
    IN  Within(SampleSigma(f, T), SampleMedian(f, T))

\* one entry of a coarse grid: a value, or False which numpy.ma masks
GridEntry(v) == [v |-> v, masked |-> (v = 0)]

\* a variant of Skewed whose comparison is strict
SkewedStrictly(mean, median, sigma) ==
    IF sigma = 0 THEN mean # median
    ELSE 10 * Abs(mean - median) > 3 * sigma

\* "numpy.fabs(mean - median) / sigma >= 0.3"; with sigma zero the quotient
\* is inf (true) or, for mean = median, nan (false)
Skewed(mean, median, sigma) ==
    IF sigma = 0 THEN mean # median
    ELSE 10 * Abs(mean - median) >= 3 * sigma

\* the background of a tile: the median when skewed, else
\* 2.5 * median - 1.5 * mean
TileBackground(mean, median, sigma) ==
    IF Skewed(mean, median, sigma) THEN median
    ELSE (5 * median - 3 * mean) \div 2

\* __grids on the samples T of the single tile
TileStats(f, T) ==
    IF T = {} THEN [rms |-> GridEntry(0), bg |-> GridEntry(0)]
    ELSE LET Background(c, mean) ==
                 [rms |-> GridEntry(c.sigma),
                  bg |-> GridEntry(TileBackground(mean, c.median, c.sigma))]
             Clipped(c) ==
                 IF c.chunk = {}
                 THEN [rms |-> GridEntry(0), bg |-> GridEntry(0)]
                 ELSE Background(c, SampleMean(f, c.chunk))
         IN  Clipped(sigma_clip(f, T))

\* __grids: the background and RMS grids of the unmasked region
PrivateGrids(e) ==
    LET Tiles(d, useful_chunk) ==
            IF useful_chunk = None THEN Raise(d.e, "AssertionError")
            ELSE Ok(d.e, TileStats(d.val.val, The(useful_chunk) \ d.val.mask))
        OfData(d) == Tiles(d, UsefulChunk(d.val.mask))
    IN  OfData(_get_data(e))

\* _grids: memoised __grids
_grids(e) ==
    IF e.memo.grids # None THEN Ok(e, The(e.memo.grids))
    ELSE LET Memoised(g) ==
                 IF g.err # "none" THEN g
                 ELSE Ok([g.e EXCEPT !.memo.grids = Some(g.val)], g.val)
         IN  Memoised(PrivateGrids(e))

\* an index beyond an axis of length n, reflected about the edge (the mode
\* "reflect" of ndimage filters: d c b a | a b c d | d c b a)
RECURSIVE Reflect(_, _)
Reflect(i, n) ==
    IF i < 0 THEN Reflect(-i - 1, n)
    ELSE IF i >= n THEN Reflect(2 * n - 1 - i, n)
    ELSE i

\* ndimage.median_filter(grid, size): at each entry the element of rank
\* (size * size) // 2 of the size x size window about it, read from the data
\* of the grid; the result is a plain array, without the mask of the grid
median_filter_of(grid, size) ==
    LET lo == -(size \div 2)
        W == (lo .. lo + size - 1) \X (lo .. lo + size - 1)
        At(p, o) == grid.val[<<Reflect(p[1] + o[1], grid.shape[1]),
                               Reflect(p[2] + o[2], grid.shape[2])>>]
        Rank(p) ==
            CHOOSE v \in {At(p, o) : o \in W} :
                /\ Cardinality({o \in W : At(p, o) < v}) <= (size * size) \div 2
                /\ Cardinality({o \in W : At(p, o) <= v}) > (size * size) \div 2
    IN  [shape |-> grid.shape,
         val |-> [p \in Pix(grid.shape) |-> Rank(p)],
         mask |-> {}]

\* "if my_filter: ...": the grid that is interpolated.  numpy.where gives a
\* plain array; where the grid is masked its condition is masked too, and
\* takes the value hidden that the masked comparison left under the mask
FilteredGrid(grid, my_filter, threshold, hidden) ==
    LET Differs(f_grid, p) ==
            IF p \in grid.mask THEN hidden
            ELSE Abs(f_grid.val[p] - grid.val[p]) > threshold
        Chosen(f_grid) ==
            IF threshold = 0 THEN f_grid
            ELSE [shape |-> grid.shape,
                  val |-> [p \in Pix(grid.shape) |->
                              IF Differs(f_grid, p) THEN f_grid.val[p]
                              ELSE grid.val[p]],
                  mask |-> {}]
    IN  IF my_filter = 0 THEN grid
        ELSE Chosen(median_filter_of(grid, my_filter))

\* the i-th of the n coordinates of numpy.mgrid[slice(-0.5, -0.5 + n / back,
\* 1j * n)], evenly spaced with both ends included, as the fraction
\* <<numerator, denominator>>
GridCoordinate(i, n, back) ==
    IF n = 1 THEN <<-1, 2>>
    ELSE <<2 * i * n - back * (n - 1), 2 * back * (n - 1)>>

\* the denominator of the values of map_coordinates over dims
MapDenominator(dims, back) ==
    GridCoordinate(0, dims[1], back)[2] * GridCoordinate(0, dims[2], back)[2]

\* ndimage.map_coordinates(grid, mgrid, mode='nearest', order=1): at each
\* pixel of dims the linear interpolation of the data of the grid between
\* the entries about its coordinates, an entry beyond an edge being the
\* entry at the edge; the values are numerators over MapDenominator
map_coordinates(grid, dims, back) ==
    LET Edge(i, n) == Max2(0, Min2(i, n - 1))
        \* the two entries about the coordinate c and their weights
        Parts(c, n) ==
            LET i0 == c[1] \div c[2]
            IN  <<[at |-> Edge(i0, n), w |-> c[2] - (c[1] - i0 * c[2])],
                  [at |-> Edge(i0 + 1, n), w |-> c[1] - i0 * c[2]]>>
        Value(xs, ys) ==
            xs[1].w * ys[1].w * grid.val[<<xs[1].at, ys[1].at>>]
            + xs[1].w * ys[2].w * grid.val[<<xs[1].at, ys[2].at>>]
            + xs[2].w * ys[1].w * grid.val[<<xs[2].at, ys[1].at>>]
            + xs[2].w * ys[2].w * grid.val[<<xs[2].at, ys[2].at>>]
    IN  [p \in Pix(dims) |->
            Value(Parts(GridCoordinate(p[1], dims[1], back), grid.shape[1]),
                  Parts(GridCoordinate(p[2], dims[2], back), grid.shape[2]))]

\* numpy.min(grid): of the unmasked entries of a masked array, of all the
\* entries of a plain one
GridMin(grid) == SetMin({grid.val[q] : q \in Pix(grid.shape) \ grid.mask})

\* _interpolate on a grid of any shape, for a useful chunk that is the whole
\* of an image of the shape dims and tiles of the edge back: the map in
\* numerators over den, fully masked when the interpolated grid is fully
\* masked, else raised to the minimum of that grid when roundup is set
InterpolatedMap(given, dims, back, roundup, my_filter, threshold, hidden) ==
    LET Shaped(grid, my_map, den) ==
            IF grid.mask = Pix(grid.shape)
            THEN [shape |-> dims, den |-> den, val |-> my_map,
                  mask |-> Pix(dims)]
            ELSE IF roundup
            THEN [shape |-> dims, den |-> den,
                  val |-> [p \in Pix(dims) |->
                              Max2(my_map[p], den * GridMin(grid))],
                  mask |-> {}]
            ELSE [shape |-> dims, den |-> den, val |-> my_map, mask |-> {}]
        Interpolated(grid) ==
            Shaped(grid, map_coordinates(grid, dims, back),
                   MapDenominator(dims, back))
    IN  Interpolated(FilteredGrid(given, my_filter, threshold, hidden))

\* the grid of one entry
OneEntryGrid(entry) ==
    [shape |-> <<1, 1>>,
     val |-> [q \in Pix(<<1, 1>>) |-> entry.v],
     mask |-> IF entry.masked THEN Pix(<<1, 1>>) ELSE {}]

\* _interpolate: a one-entry grid, median-filtered if the object is set up
\* so, interpolated (mode nearest) over the useful chunk of a zeroed
\* image-sized map, which gives the entry at every pixel of the chunk; fully
\* masked when the interpolated grid is, raised to its minimum when roundup
\* is set
_interpolate(e, entry, roundup) ==
    LET Shaped(grid, my_map) ==
            IF grid.mask = Pix(grid.shape)
            THEN [shape |-> ImageShape, val |-> my_map, mask |-> Pixels]
            ELSE IF roundup
            THEN [shape |-> ImageShape,
                  val |-> [p \in Pixels |->
                              Max2(my_map[p], grid.val[<<0, 0>>])],
                  mask |-> {}]
            ELSE [shape |-> ImageShape, val |-> my_map, mask |-> {}]
        Over(d, useful_chunk, grid) ==
            IF useful_chunk = None THEN Raise(d.e, "AssertionError")
            ELSE Ok(d.e, Shaped(grid, [p \in Pixels |->
                                          IF p \in The(useful_chunk)
                                          THEN grid.val[<<0, 0>>] ELSE 0]))
        OfData(d) ==
            Over(d, UsefulChunk(d.val.mask),
                 FilteredGrid(OneEntryGrid(entry), median_filter, mf_threshold,
                              FALSE))
    IN  OfData(_get_data(e))

-----------------------------------------------------------------------------
(* Memoised maps and their setters *)

\* _backmap: the user's background map if one is installed, else interpolated
_backmap(e) ==
    IF e.memo.backmap # None THEN Ok(e, The(e.memo.backmap))
    ELSE IF e.ubg # None
    THEN Ok([e EXCEPT !.memo.backmap = e.ubg], The(e.ubg))
    ELSE LET Memoised(m) ==
                 IF m.err # "none" THEN m
                 ELSE Ok([m.e EXCEPT !.memo.backmap = Some(m.val)], m.val)
             Interpolated(g) ==
                 IF g.err # "none" THEN g
                 ELSE Memoised(_interpolate(g.e, g.val.bg, FALSE))
         IN  Interpolated(_grids(e))

\* _set_backmap
_set_backmap(e, bgmap) ==
    [e EXCEPT !.ubg = Some(bgmap), !.memo.backmap = None, !.memo.bgsub = None]

\* _get_rm: the user's noise map if one is installed, else interpolated
_get_rm(e) ==
    IF e.memo.rmsmap # None THEN Ok(e, The(e.memo.rmsmap))
    ELSE IF e.urms # None
    THEN Ok([e EXCEPT !.memo.rmsmap = e.urms], The(e.urms))
    ELSE LET Memoised(m) ==
                 IF m.err # "none" THEN m
                 ELSE Ok([m.e EXCEPT !.memo.rmsmap = Some(m.val)], m.val)
             Interpolated(g) ==
                 IF g.err # "none" THEN g
                 ELSE Memoised(_interpolate(g.e, g.val.rms, TRUE))
         IN  Interpolated(_grids(e))

\* a variant of _set_rm that is _set_backmap (the setter of the other map)
SetRmAsBackmap(e, noisemap) ==
    [e EXCEPT !.ubg = Some(noisemap), !.memo.backmap = None, !.memo.bgsub = None]

\* _set_rm
_set_rm(e, noisemap) ==
    [e EXCEPT !.urms = Some(noisemap), !.memo.rmsmap = None]

\* a - b on arrays: numpy raises ValueError when the shapes do not broadcast
ArraySub(a, b) ==
    [shape |-> a.shape,
     val |-> [p \in Pix(a.shape) |-> a.val[p] - b.val[p]],
     mask |-> a.mask \cup b.mask]

\* _get_data_bgsubbed: data - backmap
_get_data_bgsubbed(e) ==
    IF e.memo.bgsub # None THEN Ok(e, The(e.memo.bgsub))
    ELSE LET Memoised(en, s) == Ok([en EXCEPT !.memo.bgsub = Some(s)], s)
             Subtracted(d, b) ==
                 IF b.err # "none" THEN b
                 ELSE IF b.val.shape # d.val.shape THEN Raise(b.e, "ValueError")
                 ELSE Memoised(b.e, ArraySub(d.val, b.val))
             OfData(d) == Subtracted(d, _backmap(d.e))
         IN  OfData(_get_data(e))

EmptyMemo ==
    [data |-> None, grids |-> None, backmap |-> None, rmsmap |-> None,
     bgsub |-> None]

NoEntries == [t \in {} |-> {}]

\* a variant of clearcache without del(self.data_bgsubbed)
ClearcacheKeepsBgsub(e) ==
    [e EXCEPT !.labels = NoEntries, !.clip = NoEntries,
              !.memo = [EmptyMemo EXCEPT !.bgsub = e.memo.bgsub],
              !.resid = FALSE]

\* clearcache
clearcache(e) ==
    [e EXCEPT !.labels = NoEntries, !.clip = NoEntries,
              !.memo = EmptyMemo, !.resid = FALSE]

-----------------------------------------------------------------------------
(* Island labeller *)

\* the structuring element [[0,1,0],[1,1,1],[0,1,0]]: edge neighbours
Adjacent(p, q) == Abs(p[1] - q[1]) + Abs(p[2] - q[2]) = 1

\* the pixels of S connected to C
RECURSIVE Reach(_, _)
Reach(C, S) ==
    LET N == {q \in S \ C : \E p \in C : Adjacent(p, q)}
    IN  IF N = {} THEN C ELSE Reach(C \cup N, S)

\* ndimage.label: the connected components of S, numbered in raster order
\* of their first pixel
RECURSIVE Components(_)
Components(S) ==
    IF S = {} THEN <<>>
    ELSE LET C == Reach({FirstPixel(S)}, S)
         IN  <<C>> \o Components(S \ C)

\* the labelled array of a list of components, 0 the background
Labelled(shape, comps) ==
    [p \in Pix(shape) |->
        IF \E i \in 1 .. Len(comps) : p \in comps[i]
        THEN CHOOSE i \in 1 .. Len(comps) : p \in comps[i]
        ELSE 0]

\* k * array
Scaled(k, a) ==
    [shape |-> a.shape, val |-> [p \in Pix(a.shape) |-> k * a.val[p]],
     mask |-> a.mask]

\* the ascending list of the elements of a set of naturals
RECURSIVE Ascending(_)
Ascending(S) ==
    IF S = {} THEN <<>>
    ELSE LET m == SetMin(S) IN <<m>> \o Ascending(S \ {m})

\* RMS_FILTER = 0.001, as the denominator of the fraction
RmsFilterDenominator == 1000

\* a variant of BelowDetThr that also counts a maximum of exactly zero
AtOrBelowDetThr(x) == x <= 0

\* "if x < 0": the island of maximum x is insignificant
BelowDetThr(x) == x < 0

\* a variant of clipped_data that also takes the pixels equal to their
\* analysis threshold
ClippedAtOrAbove(rms, bgsub, analysisthresholdmap) ==
    {p \in Pix(bgsub.shape) \ (bgsub.mask \cup analysisthresholdmap.mask
                                \cup rms.mask) :
        /\ bgsub.val[p] >= analysisthresholdmap.val[p]
        /\ RmsFilterDenominator * rms.val[p]
               >= SampleMedian(rms.val, Pix(bgsub.shape))}

\* clipped_data: the unmasked pixels above the analysis threshold whose RMS
\* passes the RMS_FILTER test
clipped_data(rms, bgsub, analysisthresholdmap) ==
    {p \in Pix(bgsub.shape) \ (bgsub.mask \cup analysisthresholdmap.mask
                                \cup rms.mask) :
        /\ bgsub.val[p] > analysisthresholdmap.val[p]
        /\ RmsFilterDenominator * rms.val[p]
               >= SampleMedian(rms.val, Pix(bgsub.shape))}

\* above_det_thr: data_bgsubbed - detectionthresholdmap, filled with -1
above_det_thr(bgsub, detectionthresholdmap) ==
    [p \in Pix(bgsub.shape) |->
        IF p \in bgsub.mask \cup detectionthresholdmap.mask
        THEN -1
        ELSE bgsub.val[p] - detectionthresholdmap.val[p]]

\* ndimage.maximum of the array a over the pixels of one label
maximum_value(a, island) == SetMax({a[p] : p \in island})

\* label_islands: the labels of the islands above the analysis threshold
\* whose maximum reaches the detection threshold, and the labelled array
\* with the other islands zeroed
label_islands(e, detectionthresholdmap, analysisthresholdmap) ==
    LET Selected(b, P, comps, labelled_data, labels_above_det_thr) ==
            IF Len(comps) = 0 THEN Raise(b.e, "UnboundLocalError")
            ELSE Ok(b.e,
                    [labels |-> Ascending(labels_above_det_thr),
                     labelled |->
                         [p \in P |->
                             IF labelled_data[p] \in labels_above_det_thr
                             THEN labelled_data[p] ELSE 0]])
        Maxima(b, P, comps, above) ==
            Selected(b, P, comps, Labelled(b.val.shape, comps),
                     {i \in 1 .. Len(comps) :
                         ~BelowDetThr(maximum_value(above, comps[i]))})
        Islands(b, P, comps) ==
            Maxima(b, P, comps, above_det_thr(b.val, detectionthresholdmap))
        Labels(r, b) ==
            IF b.err # "none" THEN b
            ELSE IF Pix(r.val.shape) \ r.val.mask = {}
            THEN Ok(b.e, [labels |-> <<>>,
                          labelled |-> [p \in Pix(b.val.shape) |-> 0]])
            ELSE IF \/ b.val.shape # analysisthresholdmap.shape
                    \/ b.val.shape # r.val.shape
                    \/ b.val.shape # detectionthresholdmap.shape
            THEN Raise(b.e, "ValueError")
            ELSE Islands(b, Pix(b.val.shape),
                         Components(clipped_data(r.val, b.val,
                                                 analysisthresholdmap)))
        WithRms(r) ==
            IF r.err # "none" THEN r
            ELSE Labels(r, _get_data_bgsubbed(r.e))
    IN  WithRms(_get_rm(e))

-----------------------------------------------------------------------------
(* Gaussian fitter and Detection *)

\* restoring beam (semimajor, semiminor) in half pixels
beam == [smaj |-> 2, smin |-> 0]

\* the pixel of the maximum of array a over the pixels S
\* the fit of a source at the pixel c converges
Converges(c) == fitter.ok /\ c \notin fitter.bad

PeakPixel(a, S) ==
    FirstPixel({p \in S : \A q \in S : a.val[p] >= a.val[q]})

\* Island.fit followed by Detection(): nothing when the fit fails, else the
\* measurement at the peak with the fitter's errors and axes
IslandFit(bgsub, island) ==
    LET At(c) ==
            IF ~Converges(c) THEN None
            ELSE Some([x |-> 2 * c[1], y |-> 2 * c[2], peak |-> bgsub.val[c],
                       raerr |-> fitter.raerr, decerr |-> fitter.decerr,
                       smaj |-> fitter.smaj, smin |-> fitter.smin])
    IN  At(PeakPixel(bgsub, island))

\* the ends of the axes of a Detection
start_smaj(det) == <<det.x - det.smaj, det.y>>
end_smaj(det) == <<det.x + det.smaj, det.y>>
start_smin(det) == <<det.x, det.y - det.smin>>
end_smin(det) == <<det.x, det.y + det.smin>>
AxisEnds(det) == {start_smaj(det), start_smin(det), end_smaj(det), end_smin(det)}

\* numpy.floor and numpy.ceil of a coordinate given in half pixels
Floor2(h) == h \div 2
Ceil2(h) == -((-h) \div 2)

\* check_point: the pixels around the point are indexable and unmasked
check_point(mask, pt) ==
    \A i \in {Floor2(pt[1]), Ceil2(pt[1])}, j \in {Floor2(pt[2]), Ceil2(pt[2])} :
        /\ PyIndexOk(i, XDim) /\ PyIndexOk(j, YDim)
        /\ <<PyIndex(i, XDim), PyIndex(j, YDim)>> \notin mask

\* is_usable: both ends of each axis pass check_point
is_usable(mask, det) == \A pt \in AxisEnds(det) : check_point(mask, pt)

\* the inf test on the position errors
ErrorIsInf(det) == det.raerr = "inf" \/ det.decerr = "inf"

\* filter(is_usable, results)
RECURSIVE FilterUsable(_, _)
FilterUsable(mask, results) ==
    IF results = <<>> THEN <<>>
    ELSE (IF is_usable(mask, Head(results)) THEN <<Head(results)>> ELSE <<>>)
         \o FilterUsable(mask, Tail(results))

\* a variant of PyseResiduals that subtracts the islands from the memoised
\* background-subtracted data instead of adding them to a residual map
PyseResidualsInPlace(e, labelled) ==
    [e EXCEPT !.resid = TRUE,
              !.memo.bgsub =
                  {[b EXCEPT !.val = [p \in DOMAIN b.val |->
                                        IF p \in DOMAIN labelled /\ labelled[p] # 0
                                        THEN 0 ELSE b.val[p]]] : b \in @}]

\* the residual maps set up by _pyse from the islands of the labelled array
PyseResiduals(e, labelled) == [e EXCEPT !.resid = TRUE]

\* the measurements of the islands, in island order, without failed fits and
\* without fits with an infinite position error
RECURSIVE Measure(_, _, _)
Measure(bgsub, labelled, list) ==
    IF list = <<>> THEN <<>>
    ELSE LET Kept(fit) ==
                 IF fit = None \/ ErrorIsInf(The(fit)) THEN <<>>
                 ELSE <<The(fit)>>
         IN  Kept(IslandFit(bgsub, {p \in DOMAIN labelled :
                                      labelled[p] = Head(list)}))
             \o Measure(bgsub, labelled, Tail(list))

\* _pyse
_pyse(e, detectionthresholdmap, analysisthresholdmap) ==
    LET Results(li, b, d) ==
            Ok(PyseResiduals(d.e, li.val.labelled),
               FilterUsable(d.val.mask,
                            Measure(b.val, li.val.labelled, li.val.labels)))
        Measured(li, b) == Results(li, b, _get_data(b.e))
        Islands(li) ==
            IF li.err # "none" THEN li
            ELSE Measured(li, _get_data_bgsubbed(li.e))
    IN  Islands(label_islands(e, detectionthresholdmap, analysisthresholdmap))

-----------------------------------------------------------------------------
(* Blind extraction *)

\* constructor defaults
detection_threshold == 10
analysis_threshold == 3

HasNegative(a) == \E p \in Pix(a.shape) \ a.mask : a.val[p] < 0

\* the bgmap argument: checked against the shape of the current background
\* map and installed
InstallBgmap(e, bgmap) ==
    IF bgmap = None THEN Ok(e, <<>>)
    ELSE LET Checked(b) ==
                 IF b.err # "none" THEN b
                 ELSE IF The(bgmap).shape # b.val.shape
                 THEN Raise(b.e, "IndexError")
                 ELSE Ok(_set_backmap(b.e, The(bgmap)), <<>>)
         IN  Checked(_backmap(e))

\* the noisemap argument: checked against the shape of the current RMS map
\* and for negative values, and installed
InstallNoisemap(e, noisemap) ==
    IF noisemap = None THEN Ok(e, <<>>)
    ELSE LET Checked(r) ==
                 IF r.err # "none" THEN r
                 ELSE IF The(noisemap).shape # r.val.shape
                 THEN Raise(r.e, "IndexError")
                 ELSE IF HasNegative(The(noisemap)) THEN Raise(r.e, "ValueError")
                 ELSE Ok(_set_rm(r.e, The(noisemap)), <<>>)
         IN  Checked(_get_rm(e))

\* extract
extract(e, det, anl, noisemap, bgmap) ==
    LET d == IF det = None THEN detection_threshold ELSE The(det)
        a == IF anl = None THEN analysis_threshold ELSE The(anl)
        Thresholded(r) ==
            IF r.err # "none" THEN r
            ELSE _pyse(r.e, Scaled(d, r.val), Scaled(a, r.val))
        WithNoisemap(i2) ==
            IF i2.err # "none" THEN i2 ELSE Thresholded(_get_rm(i2.e))
        WithBgmap(i1) ==
            IF i1.err # "none" THEN i1
            ELSE WithNoisemap(InstallNoisemap(i1.e, noisemap))
    IN  WithBgmap(InstallBgmap(e, bgmap))

-----------------------------------------------------------------------------
(* Extraction on the negated image *)

Negated(a) == Scaled(-1, a)

\* reverse_se.  "self.data_bgsubbed *= -1" negates the memoised array in
\* place and then assigns the result to the property, which has a getter and
\* a deleter but no setter: the assignment raises AttributeError with the
\* memoised array left negated, and the rest of the method does not run.
reverse_se(e) ==
    LET NegatedInPlace(b) ==
            IF b.err # "none" THEN b
            ELSE Raise([b.e EXCEPT !.memo.bgsub = Some(Negated(b.val))],
                       "AttributeError")
    IN  NegatedInPlace(_get_data_bgsubbed(
            [e EXCEPT !.labels = NoEntries, !.clip = NoEntries]))

-----------------------------------------------------------------------------
(* False detection rate extraction *)

\* fdr_alpha = 1e-2, as the denominator of the fraction
fdr_alpha == 100

\* round(0.25 * pi * corlengthlong * corlengthshort + 1) for the beam of the
\* image
BeamAreaRounded == 3

\* C_n = (1.0 / numpy.arange(BeamAreaRounded)[1:]).sum() as the fraction
\* <<n, d>>: the terms are 1/k for k in 1 .. BeamAreaRounded - 1
RECURSIVE Factorial(_)
Factorial(n) == IF n <= 1 THEN 1 ELSE n * Factorial(n - 1)
RECURSIVE HarmonicNumerator(_, _)
HarmonicNumerator(k, d) ==
    IF k < 1 THEN 0 ELSE d \div k + HarmonicNumerator(k - 1, d)
\* the sum with one more term, as arange(BeamAreaRounded + 1)[1:] would give
C_nOneMoreTerm ==
    <<HarmonicNumerator(BeamAreaRounded, Factorial(BeamAreaRounded)),
      Factorial(BeamAreaRounded)>>
C_n ==
    <<HarmonicNumerator(BeamAreaRounded - 1, Factorial(BeamAreaRounded - 1)),
      Factorial(BeamAreaRounded - 1)>>

\* exp(-0.5 * z**2) / sqrt(2 * pi) in millionths, tabulated at the whole
\* values of |z| (the value between two of them is that of the lower one);
\* zero from |z| = 6 on
ProbScale == 1000000
ProbTable == <<398942, 241971, 53991, 4432, 134, 1>>
prob(z) ==
    LET k == z[1] \div z[2]
    IN  IF k < Len(ProbTable) THEN ProbTable[k + 1] ELSE 0

\* |normalized_data| per pixel as a fraction <<n, d>> with d > 0.
\* numpy.ravel drops the mask, so a masked pixel (one of a zero RMS included)
\* takes part with the value the masked arithmetic left under the mask, which
\* is the parameter under
normalized_data(bgsub, rms, under) ==
    [p \in Pix(bgsub.shape) |->
        IF p \in bgsub.mask \cup rms.mask \/ rms.val[p] = 0 THEN <<under, 1>>
        ELSE <<Abs(bgsub.val[p]), Abs(rms.val[p])>>]

\* numpy.sort of prob: ascending in prob is descending in |z|.  Inserted
\* puts the value v in its place in the sorted values.
RECURSIVE Inserted(_, _)
Inserted(v, sorted) ==
    IF sorted = <<>> THEN <<v>>
    ELSE IF v[1] * Head(sorted)[2] >= Head(sorted)[1] * v[2]
    THEN <<v>> \o sorted
    ELSE <<Head(sorted)>> \o Inserted(v, Tail(sorted))
RECURSIVE SortedByProb(_, _)
SortedByProb(z, S) ==
    IF S = {} THEN <<>>
    ELSE LET p == FirstPixel(S)
         IN  Inserted(z[p], SortedByProb(z, S \ {p}))

\* "prob - compare < 0." at the index i (from 1) of the sorted values, for
\* alpha = 1 / alpha and compare = (alpha / C_n) * i / lengthprob
Undercrossing(sorted, i, alpha) ==
    prob(sorted[i]) * alpha * C_n[1] * Len(sorted) < ProbScale * C_n[2] * i

\* a variant of LastUndercrossing that takes the first index
FirstUndercrossing(sorted, alpha) ==
    LET U == {i \in 1 .. Len(sorted) : Undercrossing(sorted, i, alpha)}
    IN  IF U = {} THEN 0 ELSE SetMin(U)

\* "index = (numpy.where(prob-compare < 0.)[0]).max()", 0 when there is none
\* (ValueError)
LastUndercrossing(sorted, alpha) ==
    LET U == {i \in 1 .. Len(sorted) : Undercrossing(sorted, i, alpha)}
    IN  IF U = {} THEN 0 ELSE SetMax(U)

\* fdr_threshold * self.rmsmap for fdr_threshold the fraction t, rounded up
\* or down to whole units; rounded up it compares with >= as the exact
\* product does, rounded down it compares with > as the exact product does
ThresholdMap(t, rms, up) ==
    [shape |-> rms.shape,
     val |-> [p \in Pix(rms.shape) |->
                 IF up THEN -((-(t[1] * rms.val[p])) \div t[2])
                 ELSE (t[1] * rms.val[p]) \div t[2]],
     mask |-> rms.mask]

\* fd_extract: alpha is the denominator of the fraction, when given
fd_extract(e, alpha, anl, noisemap, bgmap, under) ==
    LET al == IF alpha = None THEN fdr_alpha ELSE The(alpha)
        Extracted(r, t) ==
            _pyse(r.e, ThresholdMap(t, r.val, TRUE),
                  IF anl = None THEN ThresholdMap(t, r.val, FALSE)
                  ELSE Scaled(The(anl), r.val))
        Selected(r, sorted, index) ==
            IF index = 0 THEN Ok(r.e, <<>>)
            ELSE Extracted(r, sorted[index])
        Sorted(r, sorted) ==
            Selected(r, sorted, LastUndercrossing(sorted, al))
        Normalized(r, z) == Sorted(r, SortedByProb(z, DOMAIN z))
        WithRms(b, r) ==
            IF r.err # "none" THEN r
            ELSE IF b.val.shape # r.val.shape THEN Raise(r.e, "ValueError")
            ELSE Normalized(r, normalized_data(b.val, r.val, under))
        WithBgsub(b) ==
            IF b.err # "none" THEN b ELSE WithRms(b, _get_rm(b.e))
        WithNoisemap(i2) ==
            IF i2.err # "none" THEN i2
            ELSE WithBgsub(_get_data_bgsubbed(i2.e))
        WithBgmap(i1) ==
            IF i1.err # "none" THEN i1
            ELSE WithNoisemap(InstallNoisemap(i1.e, noisemap))
    IN  WithBgmap(InstallBgmap(e, bgmap))

-----------------------------------------------------------------------------
(* Forced fits *)

\* a variant of SetDefault that stores v also when the key exists
SetAlways(d, k, v) ==
    [j \in DOMAIN d \cup {k} |-> IF j = k THEN v ELSE d[j]]

\* dict.setdefault
SetDefault(d, k, v) ==
    IF k \in DOMAIN d THEN d
    ELSE [j \in DOMAIN d \cup {k} |-> IF j = k THEN v ELSE d[j]]

\* box_slice_about_pixel applied to an array of the given shape
BoxSlice(x, y, boxsize, shape) ==
    LET ibr == boxsize \div 2
    IN  PySlice(x - ibr, x + ibr + 1, shape[1])
        \X PySlice(y - ibr, y + ibr + 1, shape[2])

\* the shape of array[box_slice_about_pixel(x, y, boxsize / 2.0)]
SliceShape(x, y, boxsize, shape) ==
    LET ibr == boxsize \div 2
    IN  <<Cardinality(PySlice(x - ibr, x + ibr + 1, shape[1])),
          Cardinality(PySlice(y - ibr, y + ibr + 1, shape[2]))>>

\* the first pixel, along each axis, of array[box_slice_about_pixel(...)]:
\* the origin of the coordinates of the fit
BoxOrigin(x, y, boxsize, shape) ==
    LET ibr == boxsize \div 2
    IN  <<SetMin(PySlice(x - ibr, x + ibr + 1, shape[1])),
          SetMin(PySlice(y - ibr, y + ibr + 1, shape[2]))>>

\* "fixed = {'xbar': boxsize/2.0, 'ybar': boxsize/2.0, ...}": the position the
\* fit is held at, in half pixels from the origin of the box
FixedPosition(boxsize) == <<boxsize, boxsize>>

\* the Detection built from a forced fit of the pixels fitme around (x, y):
\* the fit gives xbar and ybar from the origin of the box (the centre of its
\* brightest pixel when they are free), then
\* "measurement['xbar'] += x-boxsize/2.0"
ForcedFit(bgsub, fitme, x, y, boxsize, fixed) ==
    LET Measured(o, pk) ==
            IF fixed = None THEN <<2 * (pk[1] - o[1]), 2 * (pk[2] - o[2])>>
            ELSE FixedPosition(boxsize)
        Moved(bar) == <<bar[1] + 2 * x - boxsize, bar[2] + 2 * y - boxsize>>
        c == Moved(Measured(BoxOrigin(x, y, boxsize, bgsub.shape),
                            PeakPixel(bgsub, fitme)))
        shape == IF fixed = Some("position+error") THEN beam
                 ELSE [smaj |-> fitter.smaj, smin |-> fitter.smin]
    IN  [x |-> c[1], y |-> c[2],
         peak |-> SetMax({bgsub.val[p] : p \in fitme}),
         raerr |-> fitter.raerr, decerr |-> fitter.decerr,
         smaj |-> shape.smaj, smin |-> shape.smin]

FixedModes == {None, Some("position"), Some("position+error")}

\* fit_to_point: val is the Detection, or nothing when None is returned
fit_to_point(e, x, y, boxsize, threshold, fixed) ==
    LET t == The(threshold)
        \* the fit of the pixels fitme, with the object left as e4
        Fitted(rms, bgsub, e4, fitme) ==
            IF fitme = {} THEN Ok(e4, None)
            ELSE IF fixed \notin FixedModes THEN Raise(e4, "TypeError")
            ELSE IF ~Converges(<<x, y>>) THEN Ok(e4, None)
            ELSE IF SliceShape(x, y, boxsize, rms.shape)
                    # SliceShape(x, y, boxsize, bgsub.shape)
            THEN Raise(e4, "ValueError")
            ELSE Ok(e4, Some(ForcedFit(bgsub, fitme, x, y, boxsize, fixed)))
        \* with a threshold: the island of the pixel inside the box
        Island(rms, bgsub, e3, chunk, lab, mylabel, fitme) ==
            IF mylabel = 0 THEN Raise(e3, "ValueError")
            ELSE IF fitme = {} THEN Raise(e3, "IndexError")
            ELSE Fitted(rms, bgsub, e3, fitme)
        Labels(rms, bgsub, e3, chunk, lab) ==
            IF ~(PyIndexOk(x, bgsub.shape[1]) /\ PyIndexOk(y, bgsub.shape[2]))
            THEN Raise(e3, "IndexError")
            ELSE LET mylabel == lab[<<PyIndex(x, bgsub.shape[1]),
                                      PyIndex(y, bgsub.shape[2])>>]
                 IN  Island(rms, bgsub, e3, chunk, lab, mylabel,
                            {p \in chunk : lab[p] = mylabel} \ bgsub.mask)
        Cached(rms, bgsub, e3, chunk) ==
            Labels(rms, bgsub, e3, chunk, e3.labels[t])
        Clip(rms, bgsub, en, chunk, clip_t) ==
            Cached(rms, bgsub,
                   [en EXCEPT !.clip = clip_t,
                              !.labels = SetDefault(en.labels, t,
                                  Labelled(bgsub.shape, Components(clip_t[t])))],
                   chunk)
        Box(rms, bgsub, en, chunk) ==
            IF threshold # None /\ bgsub.shape # rms.shape
            THEN Raise(en, "ValueError")
            ELSE IF threshold # None
            THEN Clip(rms, bgsub, en, chunk,
                      SetDefault(en.clip, t,
                          {p \in Pix(bgsub.shape) :
                              bgsub.val[p] > t * rms.val[p]}))
            ELSE IF chunk = {} THEN Raise(en, "IndexError")
            ELSE Fitted(rms, bgsub, en, chunk \ bgsub.mask)
        WithBgsub(r, b) ==
            IF b.err # "none" THEN b
            ELSE Box(r.val, b.val, b.e, BoxSlice(x, y, boxsize, b.val.shape))
        WithRms(r) ==
            IF r.err # "none" THEN r
            ELSE IF ~(PyIndexOk(x, r.val.shape[1]) /\ PyIndexOk(y, r.val.shape[2]))
            THEN Raise(r.e, "IndexError")
            ELSE IF <<PyIndex(x, r.val.shape[1]), PyIndex(y, r.val.shape[2])>>
                        \in r.val.mask
            THEN Ok(r.e, None)
            ELSE WithBgsub(r, _get_data_bgsubbed(r.e))
    IN  WithRms(_get_rm(e))

\* fit_fixed_positions: a source is [valid, x, y], the pixel wcs.s2p gives
\* for the sky position, not valid when s2p raises a wcsp2s error
RECURSIVE FitSources(_, _, _, _, _, _)
FitSources(e, sources, boxsize, threshold, fixed, detections) ==
    IF sources = <<>> THEN Ok(e, detections)
    ELSE LET source == Head(sources)
             Rest(en, found) ==
                 FitSources(en, Tail(sources), boxsize, threshold, fixed, found)
             Fitted(f) ==
                 IF f.err = "IndexError" THEN Rest(f.e, detections)
                 ELSE IF f.err # "none" THEN Raise(f.e, f.err)
                 ELSE IF f.val = None \/ ErrorIsInf(The(f.val))
                 THEN Rest(f.e, detections)
                 ELSE Rest(f.e, Append(detections, The(f.val)))
         IN  IF ~source.valid THEN Rest(e, detections)
             ELSE Fitted(fit_to_point(e, source.x, source.y, boxsize,
                                      threshold, fixed))

\* a variant of fit_fixed_positions whose loop ends at a first source that
\* gives no detection
FitUntilDropped(e, sources, boxsize, threshold, fixed) ==
    LET first == FitSources(e, SubSeq(sources, 1, 1), boxsize, threshold,
                            fixed, <<>>)
    IN  IF first.err = "none" /\ first.val = <<>> THEN first
        ELSE FitSources(e, sources, boxsize, threshold, fixed, <<>>)

fit_fixed_positions(e, sources, boxsize, threshold, fixed) ==
    FitSources(e, sources, boxsize, threshold, fixed, <<>>)

-----------------------------------------------------------------------------
(* Inputs *)

\* pixel values: a flat sky of 24, a bright source of 240, a blanked pixel 0
Sky == 24
Bright == 240

\* a flat image with a source in the first pixel
ImgPoint == [p \in Pixels |-> IF p = <<0, 0>> THEN Bright ELSE Sky]
\* the same with the pixel below the source blanked
ImgHole ==
    [p \in Pixels |->
        IF p = <<0, 0>> THEN Bright ELSE IF p = <<1, 0>> THEN 0 ELSE Sky]
\* sources in two opposite corners
ImgTwo ==
    [p \in Pixels |->
        IF p \in {<<0, 0>>, <<XDim - 1, YDim - 1>>} THEN Bright ELSE Sky]
\* an all-zero image
ImgZero == [p \in Pixels |-> 0]
\* a flat sky without a source
ImgFlat == [p \in Pixels |-> Sky]

\* not a SIN projection (or max_degradation = 0): no reliable window
WcsPlain == [sin |-> FALSE, crpix |-> <<0, 0>>, delta |-> <<0, 0>>]
\* a SIN projection whose reliable window is empty
WcsDegraded == [sin |-> TRUE, crpix |-> <<1, 1>>, delta |-> <<0, 0>>]

\* behaviours of the fitter: whether the fit converges at all, the pixels at
\* which it does not, the kinds of the position errors of the Detection, and
\* the fitted semi-axes (half pixels)
Fitters ==
    {[ok |-> TRUE, bad |-> {}, raerr |-> "finite", decerr |-> "finite", smaj |-> 0, smin |-> 0],
     [ok |-> TRUE, bad |-> {}, raerr |-> "finite", decerr |-> "finite", smaj |-> 2, smin |-> 1],
     [ok |-> TRUE, bad |-> {}, raerr |-> "inf", decerr |-> "finite", smaj |-> 0, smin |-> 0],
     [ok |-> TRUE, bad |-> {}, raerr |-> "finite", decerr |-> "nan", smaj |-> 0, smin |-> 0],
     [ok |-> FALSE, bad |-> {}, raerr |-> "finite", decerr |-> "finite", smaj |-> 0, smin |-> 0]}
\* a fitter that fails on the source in the first pixel only
PartialFitter ==
    [ok |-> TRUE, bad |-> {<<0, 0>>}, raerr |-> "finite", decerr |-> "finite",
     smaj |-> 0, smin |-> 0]

WrongShape == <<XDim + 1, YDim>>

\* maps a caller passes as noisemap or assigns to rmsmap
NoiseValue == 12
NoiseMaps ==
    {Uniform(ImageShape, NoiseValue), Uniform(ImageShape, -NoiseValue),
     Uniform(WrongShape, NoiseValue)}

\* maps a caller passes as bgmap or assigns to backmap
BgValue == 48
BgMaps == {Uniform(ImageShape, BgValue), Uniform(WrongShape, BgValue)}

\* thresholds a caller passes: none (the defaults) or low ones
LowDet == 2
LowAnl == 1
ThresholdArgs == {<<None, None>>, <<Some(LowDet), Some(LowAnl)>>}

\* forced-fit inputs
PixelThreshold == 1
BoxSize == 3
Sources ==
    {[valid |-> TRUE, x |-> p[1], y |-> p[2]] : p \in Pixels}
    \cup {[valid |-> TRUE, x |-> -1, y |-> 0],
          [valid |-> TRUE, x |-> XDim, y |-> 0],
          [valid |-> FALSE, x |-> 0, y |-> 0]}

-----------------------------------------------------------------------------
(* The state machine *)

\* the images, projections and fitters the engine is constructed with
Setups ==
    {<<ImgPoint, WcsPlain, f>> : f \in Fitters}
    \cup {<<ImgHole, WcsPlain, f>> : f \in {g \in Fitters : g.smaj > 0}}
    \cup {<<ImgZero, WcsPlain, f>> :
              f \in {g \in Fitters : g.ok /\ g.smaj = 0 /\ g.raerr = g.decerr}}
    \cup {<<ImgPoint, WcsDegraded, f>> :
              f \in {g \in Fitters : g.ok /\ g.smaj = 0 /\ g.raerr = g.decerr}}
    \cup {<<ImgTwo, WcsPlain, PartialFitter>>,
          <<ImgFlat, WcsPlain, PartialFitter>>}

Init ==
    /\ \E s \in Setups : rawdata = s[1] /\ wcs = s[2] /\ fitter = s[3]
    /\ margin = 0
    /\ radius = 0
    /\ median_filter = 0
    /\ mf_threshold = 0
    /\ memo = EmptyMemo
    /\ user_backmap = None
    /\ user_noisemap = None
    /\ labels = NoEntries
    /\ clip = NoEntries
    /\ residuals = FALSE
    /\ last = "init"

\* the object after the call op
Becomes(e, op) ==
    /\ memo' = e.memo
    /\ user_backmap' = e.ubg
    /\ user_noisemap' = e.urms
    /\ labels' = e.labels
    /\ clip' = e.clip
    /\ residuals' = e.resid
    /\ last' = op
    /\ UNCHANGED <<rawdata, wcs, margin, radius, median_filter, mf_threshold,
                   fitter>>

\* the (noisemap, bgmap) arguments of extract
MapArgs ==
    {<<None, None>>}
    \cup {<<Some(n), None>> : n \in NoiseMaps}
    \cup {<<None, Some(b)>> : b \in BgMaps}
    \cup {<<Some(n), Some(Uniform(ImageShape, BgValue))>> :
              n \in {Uniform(ImageShape, NoiseValue), Uniform(ImageShape, -NoiseValue)}}

ExtractArgs == ThresholdArgs \X MapArgs

\* extract with the arguments a of ExtractArgs
ExtractWith(e, a) == extract(e, a[1][1], a[1][2], a[2][1], a[2][2])

Extract == \E a \in ExtractArgs : Becomes(ExtractWith(Eng, a).e, "extract")

ReverseSe == Becomes(reverse_se(Eng).e, "reverse_se")

\* the arguments of fd_extract: alpha (none, or 1/LooseAlpha), anl, the maps,
\* and the normalised value under masked pixels
LooseAlpha == 2
HiddenValues == {0, Len(ProbTable)}
FdArgs ==
    {a \in {None, Some(LooseAlpha)} \X {None, Some(LowAnl)}
            \X {<<None, None>>,
                <<Some(Uniform(ImageShape, NoiseValue)),
                  Some(Uniform(ImageShape, BgValue))>>}
            \X HiddenValues :
        a[3] = <<None, None>> \/ a[4] = 0}

\* fd_extract with the arguments a of FdArgs
FdExtractWith(e, a) == fd_extract(e, a[1], a[2], a[3][1], a[3][2], a[4])

FdExtract == \E a \in FdArgs : Becomes(FdExtractWith(Eng, a).e, "fd_extract")

FitArgs == Sources \X {None, Some(PixelThreshold)} \X {None, Some("position+error")}

\* fit_fixed_positions on the one source of the arguments a of FitArgs
FitWith(e, a) == fit_fixed_positions(e, <<a[1]>>, BoxSize, a[2], a[3])

\* the object a call leaves does not depend on the fixed argument, so the
\* calls of the state machine take its default
FitFixedPositions ==
    \E a \in FitArgs :
        /\ a[3] = Some("position+error")
        /\ Becomes(FitWith(Eng, a).e, "fit_fixed_positions")

ClearCache == Becomes(clearcache(Eng), "clearcache")

SetBackmap == \E m \in BgMaps : Becomes(_set_backmap(Eng, m), "set_backmap")

SetRmsmap == \E m \in NoiseMaps : Becomes(_set_rm(Eng, m), "set_rmsmap")

ReadBackmap == Becomes(_backmap(Eng).e, "backmap")

ReadRmsmap == Becomes(_get_rm(Eng).e, "rmsmap")

ReadDataBgsubbed == Becomes(_get_data_bgsubbed(Eng).e, "data_bgsubbed")

Next ==
    \/ Extract
    \/ FdExtract
    \/ ReverseSe
    \/ FitFixedPositions
    \/ ClearCache
    \/ SetBackmap
    \/ SetRmsmap
    \/ ReadBackmap
    \/ ReadRmsmap
    \/ ReadDataBgsubbed

Spec == Init /\ [][Next]_vars

-----------------------------------------------------------------------------
(* The state machine of the masks and maps of objects constructed with other
   parameters than the defaults *)

\* SIN projections with the reference pixel (FITS, counted from 1) on, beside
\* and beyond the image and reliable offsets of up to MaxDelta pixels
MaxDelta == 2
WindowProjections ==
    {[sin |-> TRUE, crpix |-> c, delta |-> d] :
        c \in (0 .. XDim + 1) \X (0 .. YDim + 1),
        d \in (0 .. MaxDelta) \X (0 .. MaxDelta)}

\* margins in pixels, radii in half pixels, sizes of the median filter and
\* its thresholds
MaxMargin == 1
MaxRadius == 2
FilterSizes == {0, 1, 3}
FilterThreshold == 1

PlainFitter ==
    [ok |-> TRUE, bad |-> {}, raerr |-> "finite", decerr |-> "finite",
     smaj |-> 0, smin |-> 0]

\* the constructor arguments: every projection on one image; margins and
\* radii on images with and without blanked pixels, with and without a
\* reliable window; median filters on images with and without a usable RMS
ParamSetups ==
    {[img |-> ImgPoint, wcs |-> w, margin |-> 0, radius |-> 0,
      median_filter |-> 0, mf_threshold |-> 0] :
        w \in WindowProjections \cup {WcsPlain}}
    \cup {[img |-> im, wcs |-> w, margin |-> m, radius |-> r,
           median_filter |-> 0, mf_threshold |-> 0] :
             im \in {ImgPoint, ImgHole, ImgZero},
             w \in {WcsPlain,
                    [sin |-> TRUE, crpix |-> <<1, 1>>, delta |-> <<1, MaxDelta>>]},
             m \in 0 .. MaxMargin, r \in 0 .. MaxRadius}
    \cup {[img |-> im, wcs |-> WcsPlain, margin |-> 0, radius |-> 0,
           median_filter |-> f, mf_threshold |-> t] :
             im \in {ImgPoint, ImgHole, ImgFlat},
             f \in FilterSizes, t \in {0, FilterThreshold}}

ParamInit ==
    /\ \E s \in ParamSetups :
           /\ rawdata = s.img /\ wcs = s.wcs
           /\ margin = s.margin /\ radius = s.radius
           /\ median_filter = s.median_filter /\ mf_threshold = s.mf_threshold
    /\ fitter = PlainFitter
    /\ memo = EmptyMemo
    /\ user_backmap = None
    /\ user_noisemap = None
    /\ labels = NoEntries
    /\ clip = NoEntries
    /\ residuals = FALSE
    /\ last = "init"

ReadData == Becomes(_get_data(Eng).e, "data")

ReadGrids == Becomes(_grids(Eng).e, "grids")

ParamNext ==
    \/ ReadData
    \/ ReadGrids
    \/ ReadBackmap
    \/ ReadRmsmap
    \/ ReadDataBgsubbed
    \/ ClearCache

ParamSpec == ParamInit /\ [][ParamNext]_vars

-----------------------------------------------------------------------------
(* Properties *)

Setters == {"set_backmap", "set_rmsmap"}

AllMasked == DataMask = Pixels

\* the maps the backmap and rmsmap properties hold or will serve
ServedBackmaps == memo.backmap \cup user_backmap
ServedRmsmaps == memo.rmsmap \cup user_noisemap

\* the pixels around a point (half-pixel coordinates) are pixels of the image
\* and are unmasked
OnUnmaskedPixels(pt) ==
    \A i \in {Floor2(pt[1]), Ceil2(pt[1])}, j \in {Floor2(pt[2]), Ceil2(pt[2])} :
        <<i, j>> \in Pixels \ DataMask

Elements(list) == {list[i] : i \in 1 .. Len(list)}

\* C1: once a user background or noise map is installed, the memoised
\* background-subtracted image and all entries of labels and clip are gone.
C1_OverrideDropsDerived ==
    last \in Setters =>
        memo.bgsub = None /\ labels = NoEntries /\ clip = NoEntries

\* C2: on an image whose pixels are all masked, extract returns an empty
\* list and does not raise.
C2_AllMaskedExtractsNothing ==
    AllMasked =>
        \A t \in ThresholdArgs :
            LET r == extract(Eng, t[1], t[2], None, None)
            IN  r.err = "none" /\ r.val = <<>>

\* C3: the RMS map never has a negative value on an unmasked pixel, and a
\* noisemap argument with a negative value is rejected and not installed.
C3_RmsNeverNegative ==
    /\ \A m \in ServedRmsmaps : ~HasNegative(m)
    /\ \A a \in ExtractArgs :
           (a[2][1] # None /\ HasNegative(The(a[2][1]))) =>
               LET r == ExtractWith(Eng, a)
               IN  r.err # "none" /\ r.e.urms = user_noisemap

\* C4: the background map and the RMS map always have the shape of the
\* image, and a bgmap or noisemap argument of another shape is rejected and
\* not installed.
C4_MapsHaveImageShape ==
    /\ \A m \in ServedBackmaps \cup ServedRmsmaps : m.shape = ImageShape
    /\ \A a \in ExtractArgs :
           LET r == ExtractWith(Eng, a)
           IN  /\ (a[2][1] # None /\ The(a[2][1]).shape # ImageShape) =>
                      r.err # "none" /\ r.e.urms = user_noisemap
               /\ (a[2][2] # None /\ The(a[2][2]).shape # ImageShape) =>
                      r.err # "none" /\ r.e.ubg = user_backmap

\* what the properties serve, read in the order data, grids, backmap, rmsmap,
\* data_bgsubbed
ReadAll(e) ==
    <<[x \in {"err", "val"} |-> _get_data(e)[x]],
      [x \in {"err", "val"} |-> _grids(e)[x]],
      [x \in {"err", "val"} |-> _backmap(e)[x]],
      [x \in {"err", "val"} |-> _get_rm(e)[x]],
      [x \in {"err", "val"} |-> _get_data_bgsubbed(e)[x]]>>

\* the object as constructed, and as constructed with the overrides kept
Constructed ==
    [memo |-> EmptyMemo, ubg |-> None, urms |-> None,
     labels |-> NoEntries, clip |-> NoEntries, resid |-> FALSE]
ConstructedWithOverrides ==
    [Constructed EXCEPT !.ubg = user_backmap, !.urms = user_noisemap]

C6_ExtractTwiceSame ==
    \A a \in ExtractArgs :
        LET first == ExtractWith(Eng, a)
            second == ExtractWith(first.e, a)
        IN  first.err = "none" =>
                second.err = "none" /\ second.val = first.val

\* C6 witness: an extract has run, and some extract from here returns
\* detections and leaves the object changed.
C6_Witness ==
    /\ last = "extract"
    /\ residuals
    /\ \E a \in ExtractArgs :
           LET first == ExtractWith(Eng, a)
           IN  first.err = "none" /\ first.val # <<>> /\ first.e # Eng

\* the RMS map in effect after the extract result r, as a caller reads it
OriginalRms(r) == _get_rm(r.e).val

\* C7: after an extract that returned, overriding the RMS map with a user
\* map and then restoring the original RMS map (both by assignment to
\* rmsmap, or both by the noisemap argument) makes extract return the
\* detections it returned before.
C7_OverrideRestoreSame ==
    \A t \in ThresholdArgs :
        LET before == extract(Eng, t[1], t[2], None, None)
            original == OriginalRms(before)
        IN  before.err = "none" =>
                /\ \A u \in NoiseMaps :
                       LET overridden == _set_rm(before.e, u)
                           restored == _set_rm(overridden, original)
                           after == extract(restored, t[1], t[2], None, None)
                       IN  after.err = "none" /\ after.val = before.val
                /\ \A u \in {m \in NoiseMaps :
                                m.shape = ImageShape /\ ~HasNegative(m)} :
                       LET overridden == extract(before.e, t[1], t[2], Some(u), None)
                           after == extract(overridden.e, t[1], t[2],
                                            Some(original), None)
                       IN  after.err = "none" /\ after.val = before.val

\* C7 witness: a user noise map is installed by assignment, extract returns
\* detections without it that it does not return with it, and returns them
\* again once the original map is restored.
C7_Witness ==
    /\ last = "set_rmsmap"
    /\ \E t \in ThresholdArgs, u \in NoiseMaps :
           LET before == extract([Eng EXCEPT !.urms = None, !.memo.rmsmap = None],
                                 t[1], t[2], None, None)
               with == extract(_set_rm(before.e, u), t[1], t[2], None, None)
               after == extract(_set_rm(_set_rm(before.e, u), OriginalRms(before)),
                                t[1], t[2], None, None)
           IN  /\ user_noisemap = Some(u)
               /\ before.err = "none" /\ before.val # <<>>
               /\ (with.err # "none" \/ with.val # before.val)
               /\ after.err = "none" /\ after.val = before.val

FiniteErrors(det) == det.raerr = "finite" /\ det.decerr = "finite"

\* C8: every Detection returned by extract or fit_fixed_positions has finite
\* RA and Dec errors.
C8_ReturnedErrorsFinite ==
    /\ \A a \in ExtractArgs :
           \A det \in Elements(ExtractWith(Eng, a).val) : FiniteErrors(det)
    /\ \A a \in FitArgs :
           \A det \in Elements(FitWith(Eng, a).val) : FiniteErrors(det)

\* C9: no Detection returned by blind extraction has an end of its major or
\* minor axis on a masked pixel or outside the image.
C9_BlindAxisEndsUsable ==
    \A a \in ExtractArgs :
        \A det \in Elements(ExtractWith(Eng, a).val) :
            \A pt \in AxisEnds(det) : OnUnmaskedPixels(pt)

\* C10: no Detection returned by fit_fixed_positions has an end of its major
\* or minor axis on a masked pixel or outside the image.
C10_ForcedAxisEndsUsable ==
    \A a \in FitArgs :
        \A det \in Elements(FitWith(Eng, a).val) :
            \A pt \in AxisEnds(det) : OnUnmaskedPixels(pt)

-----------------------------------------------------------------------------
(* Properties of the island labeller *)

\* the detection threshold at which, with the user maps of BgMaps and
\* NoiseMaps installed, the peak of the source equals its threshold
ExactDet == (Bright - BgValue) \div NoiseValue

\* (det, anl) pairs label_islands is examined with
LabelThresholds ==
    ThresholdArgs \cup {<<Some(ExactDet), Some(LowAnl)>>,
                        <<Some(ExactDet + 1), Some(LowAnl)>>}

\* label_islands as extract calls it from the engine e with thresholds t,
\* beside the RMS map, the analysis threshold, the islands of the
\* analysis-clipped image and, per pixel, the background-subtracted data
\* minus the detection map
LabelCase(e, t) ==
    LET d == IF t[1] = None THEN detection_threshold ELSE The(t[1])
        a == IF t[2] = None THEN analysis_threshold ELSE The(t[2])
        r == _get_rm(e)
        b == _get_data_bgsubbed(r.e)
        li == label_islands(r.e, Scaled(d, r.val), Scaled(a, r.val))
    IN  IF /\ r.err = "none" /\ b.err = "none" /\ li.err = "none"
           /\ Pix(r.val.shape) \ r.val.mask # {}
        THEN [ok |-> TRUE,
              li |-> li.val,
              bgsub |-> b.val,
              rms |-> r.val,
              anl |-> a,
              islands |->
                  Components(clipped_data(r.val, b.val, Scaled(a, r.val))),
              excess |-> [p \in Pix(b.val.shape) |->
                             b.val.val[p] - d * r.val.val[p]]]
        ELSE [ok |-> FALSE]

\* label L of the case c is in the returned list and keeps its pixels
Kept(c, L) ==
    /\ L \in Elements(c.li.labels)
    /\ {p \in DOMAIN c.li.labelled : c.li.labelled[p] = L} = c.islands[L]

\* label L of the case c is not in the returned list and has no pixel left
Discarded(c, L) ==
    /\ L \notin Elements(c.li.labels)
    /\ {p \in DOMAIN c.li.labelled : c.li.labelled[p] = L} = {}

-----------------------------------------------------------------------------
(* Properties of the extraction on the negated image *)

\* C13: whenever the background-subtracted image can be read, reverse_se
\* returns normally with the detections of an extract run on the negated
\* image, leaves labels and clip empty, and leaves the memoised
\* background-subtracted image as it was before the call.
C13_ReverseSeReturnsWithEmptyCaches ==
    LET b == _get_data_bgsubbed(Eng)
        r == reverse_se(Eng)
    IN  b.err = "none" =>
            /\ r.err = "none"
            /\ r.e.labels = NoEntries /\ r.e.clip = NoEntries
            /\ r.e.memo.bgsub = b.e.memo.bgsub

-----------------------------------------------------------------------------
(* Properties of the forced fits *)

\* the source does not map onto a pixel of the image
OutsideImage(source) ==
    \/ ~source.valid
    \/ source.x \notin 0 .. XDim - 1
    \/ source.y \notin 0 .. YDim - 1

\* the noise map and the background-subtracted image can be read
MapsReadable(e) ==
    _get_rm(e).err = "none" /\ _get_data_bgsubbed(e).err = "none"

\* C14: on an image whose maps can be read, for a sky position that does not
\* map into the image (the conversion fails, or the pixel is outside the
\* image, negative coordinates included) fit_fixed_positions with that
\* position alone does not raise and returns the empty list.
C14_OutsideImageFitsNothing ==
    MapsReadable(Eng) =>
        \A a \in FitArgs :
            OutsideImage(a[1]) =>
                LET f == FitWith(Eng, a)
                IN  f.err = "none" /\ f.val = <<>>

\* box sizes of both parities, the smallest a box of one pixel
BoxSizes == 1 .. BoxSize + 1

\* the box of the given size about (x, y) lies inside the image
WholeBox(x, y, boxsize) ==
    SliceShape(x, y, boxsize, ImageShape)
        = <<2 * (boxsize \div 2) + 1, 2 * (boxsize \div 2) + 1>>

\* C15: a fit with fixed = 'position+error' at a pixel of the image returns a
\* Detection at exactly the requested pixel with the shape of the beam, and
\* for every box size the position the fit is held at is the requested
\* pixel, the centre pixel of the fitted box.
C15_FixedFitAtRequestedPixel ==
    \A s \in Sources, boxsize \in BoxSizes, threshold \in {None, Some(PixelThreshold)} :
        ~OutsideImage(s) =>
            LET f == fit_to_point(Eng, s.x, s.y, boxsize, threshold,
                                  Some("position+error"))
                o == BoxOrigin(s.x, s.y, boxsize, ImageShape)
                held == FixedPosition(boxsize)
            IN  (f.err = "none" /\ f.val # None) =>
                    /\ The(f.val).x = 2 * s.x /\ The(f.val).y = 2 * s.y
                    /\ The(f.val).smaj = beam.smaj
                    /\ The(f.val).smin = beam.smin
                    /\ WholeBox(s.x, s.y, boxsize) =>
                           /\ 2 * o[1] + held[1] = 2 * s.x
                           /\ 2 * o[2] + held[2] = 2 * s.y

-----------------------------------------------------------------------------
(* Failures of single sources *)

\* the pixel positions of a list of detections
Positions(list) == [i \in 1 .. Len(list) |-> <<list[i].x, list[i].y>>]

\* the fitter gives finite errors and point-like shapes, so that no
\* detection is dropped for its errors or for the ends of its axes
PlainFits ==
    /\ fitter.raerr = "finite" /\ fitter.decerr = "finite"
    /\ fitter.smaj = 0 /\ fitter.smin = 0

\* the peaks of the islands label_islands returns in the case c, in the
\* order of their labels, in half pixels
IslandPeaks(c) ==
    [i \in 1 .. Len(c.li.labels) |->
        LET pk == PeakPixel(c.bgsub, {p \in DOMAIN c.li.labelled :
                                        c.li.labelled[p] = c.li.labels[i]})
        IN  <<2 * pk[1], 2 * pk[2]>>]

\* the fit converges at a position given in half pixels
ConvergesAt(h) == Converges(<<h[1] \div 2, h[2] \div 2>>)

\* the sources tried as the first of two: the two corners and the positions
\* outside the image and outside the projection; and as the second of two:
\* the last corner and the position outside the projection
FirstSources ==
    {s \in Sources :
        OutsideImage(s) \/ <<s.x, s.y>> \in {<<0, 0>>, <<XDim - 1, YDim - 1>>}}
SecondSources ==
    {s \in FirstSources : ~s.valid \/ <<s.x, s.y>> = <<XDim - 1, YDim - 1>>}

\* the forced fit of one source, and of two sources one after the other
FitOne(e, source, threshold) ==
    fit_fixed_positions(e, <<source>>, BoxSize, threshold, Some("position+error"))
FitTwo(e, s1, s2, threshold) ==
    fit_fixed_positions(e, <<s1, s2>>, BoxSize, threshold, Some("position+error"))

\* C16: a fit failure on an island of a blind extraction, and a failed fit or
\* a position outside the projection in forced fitting, drops that source
\* alone and is not raised: the other islands or positions are processed and
\* the detections come in the order of the islands or of the positions.
C16_FailureDropsOnlyThatSource ==
    /\ \A a \in ExtractArgs :
           LET r == ExtractWith(Eng, a)
           IN  (PlainFits /\ r.err = "none") =>
                   LET c == LabelCase(r.e, a[1])
                   IN  c.ok =>
                           Positions(r.val) = SelectSeq(IslandPeaks(c), ConvergesAt)
    /\ \A s1 \in FirstSources, threshold \in {None, Some(PixelThreshold)} :
           LET one == FitOne(Eng, s1, threshold)
           IN  /\ ~s1.valid => one.err = "none" /\ one.val = <<>>
               /\ (/\ MapsReadable(Eng) /\ threshold = None
                   /\ s1.valid /\ ~Converges(<<s1.x, s1.y>>))
                      => one.err = "none" /\ one.val = <<>>
               /\ one.err = "none" =>
                      \A s2 \in SecondSources :
                          LET two == FitOne(one.e, s2, threshold)
                              both == FitTwo(Eng, s1, s2, threshold)
                          IN  two.err = "none" =>
                                  /\ both.err = "none"
                                  /\ both.val = one.val \o two.val
                                  /\ both.e = two.e

\* C16 witness: with a fitter that fails on one of two sources, an extraction
\* finds two islands and returns the second alone, and a forced fit of the
\* two positions returns the detection of the second alone.
C16_Witness ==
    /\ last \in {"extract", "fit_fixed_positions"}
    /\ fitter.ok /\ fitter.bad # {}
    /\ \E a \in ExtractArgs :
           LET r == ExtractWith(Eng, a)
               c == LabelCase(r.e, a[1])
           IN  /\ r.err = "none" /\ c.ok
               /\ Len(c.li.labels) = 2 /\ Len(r.val) = 1
               /\ Positions(r.val) = <<IslandPeaks(c)[2]>>
    /\ \E s1 \in FirstSources, s2 \in SecondSources :
           LET both == FitTwo(Eng, s1, s2, None)
           IN  /\ s1.valid /\ ~Converges(<<s1.x, s1.y>>)
               /\ both.err = "none" /\ Len(both.val) = 1
               /\ Positions(both.val) = <<<<2 * s2.x, 2 * s2.y>>>>

-----------------------------------------------------------------------------
(* Properties of the false detection rate extraction *)

\* the values of z over the pixels S as a list, in raster order
RECURSIVE Listed(_, _)
Listed(z, S) ==
    IF S = {} THEN <<>>
    ELSE LET p == FirstPixel(S) IN <<z[p]>> \o Listed(z, S \ {p})

\* the maps and the list of normalised values fd_extract works on, read from
\* the object it leaves
FdCase(e, a) ==
    LET r == FdExtractWith(e, a)
        b == _get_data_bgsubbed(r.e)
        m == _get_rm(r.e)
    IN  IF r.err = "none" /\ b.err = "none" /\ m.err = "none"
        THEN [ok |-> TRUE, r |-> r, rms |-> m.val,
              z |-> Listed(normalized_data(b.val, m.val, a[4]),
                           Pix(b.val.shape)),
              alpha |-> IF a[1] = None THEN fdr_alpha ELSE The(a[1])]
        ELSE [ok |-> FALSE]

\* the number of entries of the list z whose probability is at most that of
\* the entry k: the last index (from 1) of that probability among the
\* probabilities sorted ascending
IndexOf(z, k) ==
    Cardinality({j \in DOMAIN z : z[j][1] * z[k][2] >= z[k][1] * z[j][2]})

\* the entries k whose probability p, at its index i, is below
\* q_i = (alpha / C_n) * i / M
Below(c) ==
    {k \in DOMAIN c.z :
        prob(c.z[k]) * c.alpha * C_n[1] * Cardinality(DOMAIN c.z)
            < ProbScale * C_n[2] * IndexOf(c.z, k)}

\* C17: fd_extract takes the largest index i of the ascending probabilities
\* with p[i] < q[i] and extracts with the threshold of the value at that
\* index; with no such index it returns an empty result and neither labels
\* nor fits.
C17_LargestUndercrossingSetsThreshold ==
    \A a \in FdArgs :
        LET c == FdCase(Eng, a)
            B == IF c.ok THEN Below(c) ELSE {}
        IN  c.ok =>
                IF B = {}
                THEN /\ c.r.val = <<>>
                     /\ c.r.e.resid = residuals
                ELSE \E k \in B :
                         /\ \A j \in B : IndexOf(c.z, j) <= IndexOf(c.z, k)
                         /\ LET x == _pyse(c.r.e,
                                           ThresholdMap(c.z[k], c.rms, TRUE),
                                           IF a[2] = None
                                           THEN ThresholdMap(c.z[k], c.rms, FALSE)
                                           ELSE Scaled(The(a[2]), c.rms))
                            IN  x.err = "none" /\ x.val = c.r.val

\* C17 witness: fd_extract has run; for some arguments several indices are
\* below their q and the threshold of the largest gives a detection, and for
\* others no index is below and the result is empty.
C17_Witness ==
    /\ last = "fd_extract"
    /\ \E a \in FdArgs :
           LET c == FdCase(Eng, a)
           IN  /\ c.ok
               /\ \E j, k \in Below(c) : IndexOf(c.z, j) < IndexOf(c.z, k)
               /\ c.r.val # <<>>
    /\ \E a \in FdArgs :
           LET c == FdCase(Eng, a)
           IN  c.ok /\ Below(c) = {} /\ c.r.val = <<>>

-----------------------------------------------------------------------------
(* Properties of the label cache *)

\* thresholds fit_to_point is called with: the one the forced fits use and
\* another one
CacheThresholds == {PixelThreshold, PixelThreshold + 1}

\* fit_to_point at (x, y) gets as far as the lookup in labels and clip: the
\* maps can be read and have one shape, and the pixel is in the image and
\* not masked in the RMS map
ReachesLookup(e, x, y) ==
    LET r == _get_rm(e)
        b == _get_data_bgsubbed(e)
    IN  /\ r.err = "none" /\ b.err = "none"
        /\ r.val.shape = b.val.shape
        /\ PyIndexOk(x, r.val.shape[1]) /\ PyIndexOk(y, r.val.shape[2])
        /\ <<PyIndex(x, r.val.shape[1]), PyIndex(y, r.val.shape[2])>>
               \notin r.val.mask

\* C18: labels and clip have the same keys; a fit_to_point call with a
\* threshold that is a key adds no entry and leaves the stored entries as
\* they are, and a call with a new threshold adds exactly the entry of that
\* threshold to each.
C18_OneEntryPerThreshold ==
    /\ DOMAIN labels = DOMAIN clip
    /\ \A s \in FirstSources, t \in CacheThresholds :
           LET f == fit_to_point(Eng, s.x, s.y, BoxSize, Some(t),
                                 Some("position+error"))
           IN  /\ DOMAIN f.e.labels = DOMAIN f.e.clip
               /\ \A k \in DOMAIN labels :
                      f.e.labels[k] = labels[k] /\ f.e.clip[k] = clip[k]
               /\ ReachesLookup(Eng, s.x, s.y) =>
                      DOMAIN f.e.labels = DOMAIN labels \cup {t}
               /\ ~ReachesLookup(Eng, s.x, s.y) =>
                      DOMAIN f.e.labels = DOMAIN labels

\* C18 witness: forced fits have filled the cache for one threshold and the
\* maps have changed since; a call with that threshold leaves the entry,
\* which is no longer what the maps give, and a call with another threshold
\* adds one.
C18_Witness ==
    /\ PixelThreshold \in DOMAIN labels
    /\ \E s \in FirstSources :
           LET f == fit_to_point(Eng, s.x, s.y, BoxSize, Some(PixelThreshold),
                                 Some("position+error"))
               g == fit_to_point(Eng, s.x, s.y, BoxSize,
                                 Some(PixelThreshold + 1), Some("position+error"))
               r == _get_rm(Eng)
               b == _get_data_bgsubbed(Eng)
           IN  /\ ReachesLookup(Eng, s.x, s.y)
               /\ f.e.clip = clip
               /\ clip[PixelThreshold]
                      # {p \in Pix(b.val.shape) :
                            b.val.val[p] > PixelThreshold * r.val.val[p]}
               /\ DOMAIN g.e.labels = {PixelThreshold, PixelThreshold + 1}

-----------------------------------------------------------------------------
(* Properties of the coarse grids *)

\* means, medians and sigmas the background of a tile is examined with: the
\* sigmas are those about ten thirds of the largest difference
MaxLevel == 3
MaxSigma == 11
Sigmas == MaxSigma - 2 .. MaxSigma

\* the statistics __grids takes of the samples of the tile of the engine e
TileCase(e) ==
    LET d == _get_data(e)
        g == _grids(e)
        T == IF UsefulChunk(d.val.mask) = None THEN {}
             ELSE The(UsefulChunk(d.val.mask)) \ d.val.mask
        c == sigma_clip(d.val.val, T)
    IN  IF g.err = "none" /\ T # {} /\ c.chunk # {}
        THEN [usable |-> TRUE, grids |-> g.val, sigma |-> c.sigma,
              median |-> c.median, mean |-> SampleMean(d.val.val, c.chunk)]
        ELSE [usable |-> FALSE, grids |-> g.val]

\* C19: for a tile with usable samples the recorded background is the median
\* of the clipped sample when |mean - median| / sigma >= 0.3, the value 0.3
\* included, and 2.5 * median - 1.5 * mean otherwise, and the recorded RMS is
\* sigma; with sigma zero one of the two is recorded as well.
C19_BackgroundByPearsonSkew ==
    /\ LET c == TileCase(Eng)
       IN  c.usable =>
               /\ c.grids.rms.v = c.sigma
               /\ c.sigma > 0 =>
                      c.grids.bg.v =
                          IF 10 * Abs(c.mean - c.median) >= 3 * c.sigma
                          THEN c.median
                          ELSE (5 * c.median - 3 * c.mean) \div 2
               /\ c.sigma = 0 =>
                      c.grids.bg.v \in {c.median,
                                        (5 * c.median - 3 * c.mean) \div 2}
    /\ \A mean, median \in 0 .. MaxLevel, sigma \in Sigmas :
           TileBackground(mean, median, sigma) =
               IF 10 * Abs(mean - median) >= 3 * sigma THEN median
               ELSE (5 * median - 3 * mean) \div 2

\* C19 witness: the grids of a flat image have been computed: the sigma of
\* its tile is zero and a background, the median, is recorded; and among the
\* statistics examined some lie exactly on the value 0.3.
C19_Witness ==
    /\ memo.grids # None
    /\ LET c == TileCase(Eng)
       IN  /\ c.usable /\ c.sigma = 0
           /\ The(memo.grids).bg.v = c.median
    /\ \E mean, median \in 0 .. MaxLevel, sigma \in Sigmas :
           /\ 10 * Abs(mean - median) = 3 * sigma
           /\ TileBackground(mean, median, sigma) = median
           /\ median # (5 * median - 3 * mean) \div 2

\* C20: an entry of the background grid or of the RMS grid is masked exactly
\* when its tile has no usable sample; a tile with usable samples is masked
\* in neither grid whatever its values, and the two grids have one mask.
C20_GridMaskedIffNoUsableSamples ==
    LET g == _grids(Eng)
        c == TileCase(Eng)
    IN  g.err = "none" =>
            /\ g.val.bg.masked <=> ~c.usable
            /\ g.val.rms.masked <=> ~c.usable
            /\ g.val.bg.masked <=> g.val.rms.masked

-----------------------------------------------------------------------------
(* Properties of the pixels of an island *)

\* (det, anl) pairs the pixels of the islands are examined with: the last
\* puts the analysis threshold of the source, under the user maps of BgMaps
\* and NoiseMaps, at its value
AnalysisThresholds ==
    ThresholdArgs \cup {<<Some(ExactDet), Some(ExactDet)>>}

\* the pixel p is unmasked, above its analysis threshold and of an RMS of at
\* least RMS_FILTER times the median RMS, in the case c
Eligible(c, p) ==
    /\ p \notin DataMask
    /\ c.bgsub.val[p] > c.anl * c.rms.val[p]
    /\ RmsFilterDenominator * c.rms.val[p] >= SampleMedian(c.rms.val, Pixels)

\* the pixels of the label L in the labelled array label_islands returns
IslandOf(c, L) == {p \in DOMAIN c.li.labelled : c.li.labelled[p] = L}

\* C21: every pixel of an island label_islands returns is unmasked, strictly
\* above its analysis threshold and of an RMS of at least 0.001 times the
\* median RMS; and each returned island is a connected component of such
\* pixels under the structuring element: it is connected and no such pixel
\* outside it touches it.
C21_IslandPixelsPassThreeFilters ==
    \A t \in AnalysisThresholds :
        LET c == LabelCase(Eng, t)
        IN  c.ok =>
                \A L \in Elements(c.li.labels) :
                    LET I == IslandOf(c, L)
                    IN  /\ I # {}
                        /\ \A p \in I : Eligible(c, p)
                        /\ Reach({FirstPixel(I)}, I) = I
                        /\ \A q \in Pixels \ I :
                               Eligible(c, q) => \A p \in I : ~Adjacent(p, q)

\* C21 witness: an extract has run; label_islands returns an island beside
\* an unmasked pixel that is not above its analysis threshold, and for
\* another threshold the brightest pixel equals its analysis threshold and
\* is in no island.
C21_Witness ==
    /\ last = "extract"
    /\ \E t \in AnalysisThresholds :
           LET c == LabelCase(Eng, t)
           IN  /\ c.ok /\ Len(c.li.labels) > 0
               /\ \E p \in IslandOf(c, c.li.labels[1]), q \in Pixels \ DataMask :
                      /\ Adjacent(p, q)
                      /\ c.bgsub.val[q] <= c.anl * c.rms.val[q]
    /\ LET r == _get_rm(Eng)
           b == _get_data_bgsubbed(r.e)
       IN  /\ r.err = "none" /\ b.err = "none"
           /\ r.val.shape = b.val.shape /\ r.val.mask = {}
           /\ \E p \in Pixels \ DataMask :
                  b.val.val[p] = ExactDet * r.val.val[p]
           /\ clipped_data(r.val, b.val, Scaled(ExactDet, r.val)) = {}

-----------------------------------------------------------------------------
(* Properties of the pair label_islands returns *)

\* the non-zero values of a labelled array
NonZeroLabels(labelled) == {labelled[p] : p \in DOMAIN labelled} \ {0}

\* C22: whenever the RMS map and the background-subtracted image can be
\* read and have one shape, label_islands returns a pair (labels, map), also
\* when no pixel clears the analysis threshold: labels is ascending, and the
\* non-zero values of the map are exactly the values in labels.
C22_LabelIslandsReturnsPair ==
    \A t \in AnalysisThresholds :
        LET d == IF t[1] = None THEN detection_threshold ELSE The(t[1])
            a == IF t[2] = None THEN analysis_threshold ELSE The(t[2])
            r == _get_rm(Eng)
            b == _get_data_bgsubbed(r.e)
            li == label_islands(r.e, Scaled(d, r.val), Scaled(a, r.val))
        IN  (/\ r.err = "none" /\ b.err = "none"
             /\ r.val.shape = b.val.shape)
                => /\ li.err = "none"
                   /\ li.val.labels = Ascending(Elements(li.val.labels))
                   /\ NonZeroLabels(li.val.labelled) = Elements(li.val.labels)

-----------------------------------------------------------------------------
(* Properties of the interpolation of the coarse grids *)

\* the tile edge, the shape of the map and the values of the entries of the
\* grids the interpolation is examined with; an entry of 0 is False, masked
TileEdge == 2
MapDims == <<XDim + 1, YDim>>
GridLow == 6
GridHigh == 18

\* the shape of the grid __grids makes for a useful chunk of the shape dims
GridShape(dims, back) ==
    <<(dims[1] + back - 1) \div back, (dims[2] + back - 1) \div back>>

\* the coarse grids of that shape, as __grids builds them
CoarseGrids ==
    {[shape |-> GridShape(MapDims, TileEdge),
      val |-> g,
      mask |-> {q \in DOMAIN g : g[q] = 0}] :
        g \in [Pix(GridShape(MapDims, TileEdge)) -> {0, GridLow, GridHigh}]}

FullyMasked(a) == a.mask = Pix(a.shape)

\* C23: a fully masked coarse grid gives a fully masked map, whatever the
\* median filter and its threshold and whether roundup is set: for the grid
\* of one entry of the object, and for every grid of CoarseGrids.
C23_MaskedGridGivesMaskedMap ==
    /\ \A roundup \in BOOLEAN :
           LET m == _interpolate(Eng, GridEntry(0), roundup)
           IN  m.err = "none" => FullyMasked(m.val)
    /\ \A grid \in CoarseGrids, roundup, hidden \in BOOLEAN :
           FullyMasked(grid) =>
               FullyMasked(InterpolatedMap(grid, MapDims, TileEdge, roundup,
                                           median_filter, mf_threshold, hidden))

\* C24: with roundup set and a coarse grid that is not fully masked, every
\* value of the map is at least the minimum of the unmasked entries of the
\* grid, and a value that the interpolation already gives at or above that
\* minimum is returned as it is: for the grid of one entry of the object,
\* and for every grid of CoarseGrids.
C24_RoundupKeepsMapAboveGridMinimum ==
    /\ \A v \in {GridLow, GridHigh} :
           LET m == _interpolate(Eng, GridEntry(v), TRUE)
           IN  m.err = "none" =>
                   \A p \in Pixels \ m.val.mask : m.val.val[p] >= v
    /\ \A grid \in CoarseGrids, hidden \in BOOLEAN :
           ~FullyMasked(grid) =>
               LET out == InterpolatedMap(grid, MapDims, TileEdge, TRUE,
                                          median_filter, mf_threshold, hidden)
                   raw == InterpolatedMap(grid, MapDims, TileEdge, FALSE,
                                          median_filter, mf_threshold, hidden)
                   least == out.den * GridMin(grid)
               IN  \A p \in Pix(MapDims) \ out.mask :
                       /\ out.val[p] >= least
                       /\ raw.val[p] >= least => out.val[p] = raw.val[p]

-----------------------------------------------------------------------------
(* Properties of the reliable window *)

\* the pixels within h[k] of c[k] along each axis k
Rectangle(c, h) ==
    {p \in Pixels : \A k \in 1 .. 2 : c[k] - h[k] <= p[k] /\ p[k] <= c[k] + h[k]}

\* the pixels reliable_window leaves unmasked
Reliable == Pixels \ reliable_window

\* C25 as claimed: for a SIN projection the pixels reliable_window leaves
\* unmasked are those of the image within delta of crpix along each axis
\* (crpix read as an array index, or as a FITS pixel counted from 1); for
\* another projection, or max_degradation 0, no pixel is masked.
C25_WindowHasHalfWidthDelta ==
    IF wcs.sin
    THEN \/ Reliable = Rectangle(wcs.crpix, wcs.delta)
         \/ Reliable = Rectangle(<<wcs.crpix[1] - 1, wcs.crpix[2] - 1>>, wcs.delta)
    ELSE Reliable = Pixels

\* C25 amended: for a SIN projection the pixels reliable_window leaves
\* unmasked are those of the image with an index from crpix - delta to
\* crpix + delta - 2 along each axis, which is within delta - 1 of the index
\* crpix - 1 of the reference pixel; for another projection, or
\* max_degradation 0, no pixel is masked.  The memoised data masks every
\* pixel outside the window.
C25_WindowHasHalfWidthDeltaLessOne ==
    /\ IF wcs.sin
       THEN Reliable
                = {p \in Pixels : \A k \in 1 .. 2 :
                      /\ wcs.crpix[k] - wcs.delta[k] <= p[k]
                      /\ p[k] <= wcs.crpix[k] + wcs.delta[k] - 2}
       ELSE Reliable = Pixels
    /\ \A d \in memo.data : Pixels \ Reliable \subseteq d.mask

\* C25 witness: the data of an image with a SIN projection has been read;
\* the lower limit of the window along one axis is below the image, and the
\* window keeps some pixels and masks others.
C25_Witness ==
    /\ last = "data" /\ memo.data # None
    /\ wcs.sin
    /\ \E k \in 1 .. 2 : wcs.crpix[k] - wcs.delta[k] < 0
    /\ Reliable # {} /\ Reliable # Pixels
    /\ Reliable # Rectangle(wcs.crpix, wcs.delta)

-----------------------------------------------------------------------------
(* Properties of the mask of the data *)

\* the index i of an axis of length n is within m pixels of an end of it
NearEdge(i, n, m) == i < m \/ i >= n - m

\* the pixel p is farther than r half pixels from the centre of the image
BeyondRadius(p, r) ==
    (2 * p[1] - (XDim - 1)) * (2 * p[1] - (XDim - 1))
        + (2 * p[2] - (YDim - 1)) * (2 * p[2] - (YDim - 1))
    > r * r

\* one of the four reasons to mask the pixel p holds
HasReasonToMask(p) ==
    \/ p \notin Reliable
    \/ margin > 0 /\ (NearEdge(p[1], XDim, margin) \/ NearEdge(p[2], YDim, margin))
    \/ radius > 0 /\ BeyondRadius(p, radius)
    \/ rawdata[p] = 0

\* the longest axis the margin is examined on
MaxAxis == 5

\* C26: a pixel of the masked data is masked if and only if it is outside
\* the reliable window, or within margin pixels of an edge (margin > 0), or
\* farther than radius from the centre (radius > 0), or zero; a margin or a
\* radius of 0 masks nothing.  Along an axis of any length the margin masks
\* the indices within margin of either end, and no other.
C26_MaskedIffOneOfFourReasons ==
    /\ \A p \in Pixels : p \in DataMask <=> HasReasonToMask(p)
    /\ \A d \in memo.data :
           /\ d.val = rawdata
           /\ \A p \in Pixels : p \in d.mask <=> HasReasonToMask(p)
    /\ \A n \in 1 .. MaxAxis, m \in 1 .. MaxMargin + 1 :
           (0 .. n - 1) \ PySlice(m, -m, n)
               = {i \in 0 .. n - 1 : NearEdge(i, n, m)}

\* C26 witness: the data has been read of an image with a blanked pixel and
\* a margin or a radius that masks a pixel which is not blanked and is
\* inside the reliable window.
C26_Witness ==
    /\ last = "data"
    /\ margin > 0 \/ radius > 0
    /\ \E d \in memo.data :
           \E p, q \in d.mask :
               /\ rawdata[p] = 0
               /\ rawdata[q] # 0 /\ q \in Reliable

-----------------------------------------------------------------------------
(* Properties of the normalisation of the false detection rate *)

\* the sum of 1/k for k in 1 .. K as a fraction <<n, d>>, added term by term
RECURSIVE HarmonicSum(_)
HarmonicSum(K) ==
    IF K < 1 THEN <<0, 1>>
    ELSE LET h == HarmonicSum(K - 1) IN <<h[1] * K + h[2], h[2] * K>>

SameFraction(x, y) == x[1] * y[2] = y[1] * x[2]

\* the entries of the list of c that are below their q when the normalisation
\* is the sum of 1/k for k in 1 .. K
BelowWith(c, K) ==
    LET h == HarmonicSum(K)
    IN  {k \in DOMAIN c.z :
            prob(c.z[k]) * c.alpha * h[1] * Cardinality(DOMAIN c.z)
                < ProbScale * h[2] * IndexOf(c.z, k)}

\* arguments of fd_extract for the normalisation: those of FdArgs, and a loose
\* alpha with maps that put the sky one RMS from the background
NormalisationArgs ==
    FdArgs
    \cup {<<Some(LooseAlpha), None,
            <<Some(Uniform(ImageShape, NoiseValue)),
              Some(Uniform(ImageShape, BgValue - NoiseValue))>>, 0>>}

\* C27 as claimed: the normalisation C_n of fd_extract is the sum of 1/k for
\* k from 1 to K = round(0.25 * pi * corlengthlong * corlengthshort) + 1,
\* which is BeamAreaRounded, and where fd_extract has run the entries it finds
\* below their q are those of that sum.
C27_NormalisationSumsToRoundedAreaPlusOne ==
    /\ SameFraction(C_n, HarmonicSum(BeamAreaRounded))
    /\ last = "fd_extract" =>
           \A a \in NormalisationArgs :
               LET c == FdCase(Eng, a)
               IN  c.ok => Below(c) = BelowWith(c, BeamAreaRounded)

\* C27: the normalisation C_n of fd_extract is the sum of 1/k for k from 1 to
\* BeamAreaRounded - 1, one term fewer than claimed, and where fd_extract has
\* run the entries it finds below their q are those of that sum.
C27_NormalisationSumsToRoundedArea ==
    /\ SameFraction(C_n, HarmonicSum(BeamAreaRounded - 1))
    /\ last = "fd_extract" =>
           \A a \in NormalisationArgs :
               LET c == FdCase(Eng, a)
               IN  c.ok => Below(c) = BelowWith(c, BeamAreaRounded - 1)

\* C27 witness: fd_extract has run, and for some arguments the entries below
\* their q are those of the sum up to BeamAreaRounded - 1 and not those of the
\* sum up to BeamAreaRounded.
C27_Witness ==
    /\ last = "fd_extract"
    /\ \E a \in NormalisationArgs :
           LET c == FdCase(Eng, a)
           IN  /\ c.ok
               /\ Below(c) = BelowWith(c, BeamAreaRounded - 1)
               /\ Below(c) # BelowWith(c, BeamAreaRounded)

-----------------------------------------------------------------------------
(* Properties of a call that rejects an override *)

\* a map a caller passes that the checks of extract and fd_extract reject: of
\* another shape than the image, or a noise map with a negative value
InvalidBgmap(bgmap) == bgmap # None /\ The(bgmap).shape # ImageShape
InvalidNoisemap(noisemap) ==
    /\ noisemap # None
    /\ The(noisemap).shape # ImageShape \/ HasNegative(The(noisemap))

\* the call with result r raised on one of the checks of its overrides
RejectedOverride(r, noisemap, bgmap) ==
    /\ r.err \in {"IndexError", "ValueError"}
    /\ InvalidBgmap(bgmap) \/ InvalidNoisemap(noisemap)

\* (alpha, anl, noisemap, bgmap) arguments of fd_extract whose noise map is
\* rejected
RejectedFdArgs ==
    {None} \X {None}
        \X {Some(n) : n \in {m \in NoiseMaps : InvalidNoisemap(Some(m))}}
        \X {None, Some(Uniform(ImageShape, BgValue))}

\* C28: when extract or fd_extract raises because a supplied override is
\* invalid, the stored user background map and user noise map are the ones
\* held before the call, also when a valid bgmap comes with an invalid
\* noisemap.
C28_RejectedOverrideInstallsNeither ==
    (_backmap(Eng).err = "none" /\ _get_rm(Eng).err = "none") =>
        /\ \A a \in ExtractArgs :
               LET r == ExtractWith(Eng, a)
               IN  RejectedOverride(r, a[2][1], a[2][2]) =>
                       r.e.ubg = user_backmap /\ r.e.urms = user_noisemap
        /\ \A a \in RejectedFdArgs :
               LET r == fd_extract(Eng, a[1], a[2], a[3], a[4], 0)
               IN  RejectedOverride(r, a[3], a[4]) =>
                       r.e.ubg = user_backmap /\ r.e.urms = user_noisemap

-----------------------------------------------------------------------------
(* Properties of the cached background-subtracted image *)

\* a memoised background-subtracted image of the engine e is the data minus
\* the background map of e
BgsubIsDataMinusBackmap(e) ==
    e.memo.bgsub # None =>
        LET d == _get_data(e)
            b == _backmap(d.e)
        IN  /\ d.err = "none" /\ b.err = "none"
            /\ The(e.memo.bgsub) = ArraySub(d.val, b.val)

\* C29: whenever reverse_se has finished, by returning or by raising, the
\* cached background-subtracted image equals the masked data minus the
\* background map, so that in every state between public calls a cached
\* data_bgsubbed equals data - backmap for the current background map.
C29_CachedBgsubIsDataMinusBackmap ==
    /\ BgsubIsDataMinusBackmap(Eng)
    /\ BgsubIsDataMinusBackmap(reverse_se(Eng).e)

-----------------------------------------------------------------------------
(* Properties of a forced fit on the background *)

\* the sources on an unmasked pixel of the engine e that is not above
\* threshold * rms, when e has no clip and no labels stored for the
\* threshold: the label fit_to_point finds for the pixel is 0
BackgroundSources(e, threshold) ==
    LET b == _get_data_bgsubbed(e)
        m == _get_rm(b.e)
    IN  {s \in Sources :
            /\ threshold \notin DOMAIN e.labels \cup DOMAIN e.clip
            /\ ~OutsideImage(s)
            /\ <<s.x, s.y>> \notin b.val.mask \cup m.val.mask
            /\ b.val.val[<<s.x, s.y>>] <= threshold * m.val.val[<<s.x, s.y>>]}

\* C30: in fit_fixed_positions with a pixel threshold, a position whose pixel
\* is not above threshold * rms is skipped like any other unfittable
\* position: the call does not raise and returns nothing for it, and the
\* positions after it in the list are still fitted and returned.
C30_BackgroundPositionIsSkipped ==
    MapsReadable(Eng) =>
        \A s1 \in BackgroundSources(Eng, PixelThreshold) :
            LET one == FitOne(Eng, s1, Some(PixelThreshold))
            IN  /\ one.err = "none" /\ one.val = <<>>
                /\ \A s2 \in SecondSources :
                       LET two == FitOne(one.e, s2, Some(PixelThreshold))
                           both == FitTwo(Eng, s1, s2, Some(PixelThreshold))
                       IN  two.err = "none" =>
                               both.err = "none" /\ both.val = two.val

====
